---- MODULE Spec2Model ----
(***************************************************************************)
(* CAPIbara: route table, wildcard matcher, authenticator and the request  *)
(* dispatcher (src/src/router.js, src/src/utils.js, src/src/auth.js,       *)
(* src/src/config.js, src/src/debug.js and the file logger).               *)
(*                                                                         *)
(* Strings that the code inspects character by character (event names and  *)
(* event_match patterns) are sequences of one-character strings.           *)
(***************************************************************************)
EXTENDS Integers, Sequences, FiniteSets, TLC

VARIABLES
    cfgRoutes,      \* config.routes: the validated routes of routes.json, in file order
    debugMaxEntries,\* config.debugMaxEntries
    debugLogging,   \* config.debugLogging
    routes,         \* Router.routes
    fallbackRoute,  \* Router.fallbackRoute: <<>> is null, <<r>> the route r
    initialized,    \* Server.initializeComponents has run
    maxEntries,     \* DebugLogger.maxEntries
    entries,        \* DebugLogger.entries, newest first
    templateFiles,  \* the template files that exist and hold valid JSON
    templateEdits,  \* the templates changed since startup: on disk, and in the cache
    templateCache,  \* TemplateEngine.templateCache: the paths it holds
    matchOut,       \* the answer of Router.findMatchingRoutes to a direct call
    run,            \* per request: the state of its processRequest call
    crashed,        \* the process has exited on an unhandled rejection
    render,         \* a direct call of the template engine: its arguments and result
    call            \* a direct call of another function: its name, arguments and result

vars == <<cfgRoutes, debugMaxEntries, debugLogging, routes, fallbackRoute, initialized, maxEntries,
          entries, templateFiles, templateEdits, templateCache, matchOut, run, crashed, render,
          call>>

\* a string field that is absent (undefined or null)
None == "none"
\* a field of another type that is absent is the empty sequence, present <<v>>
Absent == <<>>
Some(v) == <<v>>

(***************************************************************************)
(* Bounds.                                                                 *)
(***************************************************************************)
MaxRoutes == 3

(***************************************************************************)
(* Strings.                                                                *)
(***************************************************************************)
Star == <<"*">>
Buy == <<"b", "u", "y">>
BuyX == <<"b", "u", "y", ".", "x">>
BuyDotStar == <<"b", "u", "y", ".", "*">>
View == <<"v", "i", "e", "w">>

\* the characters  .+^${}()|[]\  that matchesWildcard escapes
EscapedChars == {".", "+", "^", "$", "{", "}", "(", ")", "|", "[", "]", "\\"}

\* the line terminators, which the regular expression atom '.' does not match
LineTerminators == {"\n", "\r"}

includes(str, ch) == \E i \in 1..Len(str) : str[i] = ch

(***************************************************************************)
(* The regular expression matchesWildcard builds: each '*' becomes '.*',   *)
(* each escaped character a literal, and every other character is copied   *)
(* as it is, so that an unescaped '?' is the quantifier of the atom before *)
(* it.  An atom is [c, opt, star]: c = None is '.'.  q counts the '?' that *)
(* directly follow the last atom, err is the SyntaxError of new RegExp.    *)
(***************************************************************************)
RECURSIVE compileRegex(_, _, _)
compileRegex(pattern, i, acc) ==
    IF i > Len(pattern) THEN acc
    ELSE LET ch == pattern[i]
             n == Len(acc.atoms)
         IN  IF ch = "*"
             THEN compileRegex(pattern, i + 1,
                    [acc EXCEPT !.atoms = Append(@, [c |-> None, opt |-> TRUE, star |-> TRUE]),
                                !.q = 0])
             ELSE IF ch = "?" /\ ~(ch \in EscapedChars)
             THEN IF n = 0 \/ acc.q = 2 \/ (acc.q = 1 /\ acc.atoms[n].star)
                  THEN [acc EXCEPT !.err = TRUE]
                  ELSE IF acc.q = 0 /\ ~acc.atoms[n].star
                  THEN compileRegex(pattern, i + 1,
                         [acc EXCEPT !.atoms[n].opt = TRUE, !.q = 1])
                  ELSE compileRegex(pattern, i + 1, [acc EXCEPT !.q = @ + 1])
             ELSE compileRegex(pattern, i + 1,
                    [acc EXCEPT !.atoms = Append(@, [c |-> ch, opt |-> FALSE, star |-> FALSE]),
                                !.q = 0])

regexOf(pattern) == compileRegex(pattern, 1, [atoms |-> <<>>, q |-> 0, err |-> FALSE])

\* regex.test(value) for the anchored expression ^atoms$
RECURSIVE regexTest(_, _, _, _)
regexTest(atoms, i, value, j) ==
    IF i > Len(atoms) THEN j > Len(value)
    ELSE LET a == atoms[i]
         IN  IF a.star
             THEN \E k \in j..(Len(value) + 1) :
                     /\ \A m \in j..(k - 1) : value[m] \notin LineTerminators
                     /\ regexTest(atoms, i + 1, value, k)
             ELSE \/ a.opt /\ regexTest(atoms, i + 1, value, j)
                  \/ /\ j <= Len(value)
                     /\ value[j] = a.c
                     /\ regexTest(atoms, i + 1, value, j + 1)

\* new RegExp(...) throws a SyntaxError
wildcardThrows(pattern) ==
    /\ pattern # Star
    /\ includes(pattern, "*")
    /\ regexOf(pattern).err

\* a matchesWildcard that makes a regular expression of every pattern
matchesWildcardAlwaysRegex(pattern, value) ==
    IF pattern = Star THEN TRUE
    ELSE regexTest(regexOf(pattern).atoms, 1, value, 1)

matchesWildcard(pattern, value) ==
    IF pattern = Star THEN TRUE
    ELSE IF ~includes(pattern, "*") THEN pattern = value
    ELSE regexTest(regexOf(pattern).atoms, 1, value, 1)

(***************************************************************************)
(* Routes.  A field the route does not have is None or Absent.             *)
(***************************************************************************)
RouteNames == <<"A", "B", "C", "D", "E">>

Methods == {"POST", "GET"}

KeyAuth(k) == [type |-> "apikey", key |-> k, origins |-> {}, allowed_ips |-> {}]

\* a template field that is set, but to null or to the empty string
JsNull == "null"
EmptyString == ""

\* if (route.template)
truthy(template) == template \notin {None, JsNull, EmptyString}

\* the target_url of the route named n
TargetUrl(n) == <<"https://target.example", n>>

\* the route that has nothing but its required fields
BaseRoute(n) ==
    [name |-> n, event_match |-> Buy, target_url |-> TargetUrl(n),
     methods |-> Some({"POST"}), multi |-> FALSE,
     fallback |-> FALSE, priority |-> Absent, auth |-> KeyAuth("k1"),
     template |-> None]

\* config._validateRoutes: at most one route has fallback: true
ValidConfig(rs) ==
    Cardinality({i \in 1..Len(rs) : rs[i].fallback}) <= 1

\* the sequences of at most n elements of S
SeqUpTo(S, n) == UNION {[1..k -> S] : k \in 0..n}

\* a route table in file order: the i-th route is named RouteNames[i]
Named(shapes) ==
    [i \in 1..Len(shapes) |-> [shapes[i] EXCEPT !.name = RouteNames[i],
                                                !.target_url = TargetUrl(RouteNames[i])]]

(***************************************************************************)
(* utils.sortRoutesByPriority                                              *)
(***************************************************************************)
\* the comparator of the sort is negative: a (at index ia) goes before b
\* the comparator with a missing priority read as 0 (priority || 0)
comparatorAbsentZero(a, ia, b, ib) ==
    LET pa == IF a.priority = Absent THEN 0 ELSE a.priority[1]
        pb == IF b.priority = Absent THEN 0 ELSE b.priority[1]
    IN  IF pa = pb THEN ia - ib < 0 ELSE pa - pb < 0

comparatorNegative(a, ia, b, ib) ==
    IF a.priority = b.priority THEN ia - ib < 0
    ELSE IF a.priority = Absent THEN FALSE      \* Infinity - n > 0
    ELSE IF b.priority = Absent THEN TRUE       \* n - Infinity < 0
    ELSE a.priority[1] - b.priority[1] < 0

sortRoutesByPriority(rs) ==
    LET n == Len(rs)
        pos(i) == 1 + Cardinality({j \in 1..n : comparatorNegative(rs[j], j, rs[i], i)})
    IN  [k \in 1..n |-> rs[CHOOSE i \in 1..n : pos(i) = k]]

\* Array.prototype.filter
RECURSIVE filterRoutes(_, _)
filterRoutes(rs, keepFallback) ==
    IF rs = <<>> THEN <<>>
    ELSE IF Head(rs).fallback = keepFallback
         THEN <<Head(rs)>> \o filterRoutes(Tail(rs), keepFallback)
         ELSE filterRoutes(Tail(rs), keepFallback)

(***************************************************************************)
(* Router.findMatchingRoutes                                               *)
(***************************************************************************)
qualifies(route, eventName, method) ==
    /\ matchesWildcard(route.event_match, eventName)
    /\ route.methods # Absent
    /\ method \in route.methods[1]

RECURSIVE findMatchingFrom(_, _, _, _)
findMatchingFrom(rs, i, eventName, method) ==
    IF i > Len(rs) THEN <<>>
    ELSE IF qualifies(rs[i], eventName, method)
         THEN IF ~rs[i].multi
              THEN <<rs[i]>>
              ELSE <<rs[i]>> \o findMatchingFrom(rs, i + 1, eventName, method)
         ELSE findMatchingFrom(rs, i + 1, eventName, method)

\* the scan without the break at the first route that is not multi
RECURSIVE findMatchingNoBreakFrom(_, _, _, _)
findMatchingNoBreakFrom(rs, i, eventName, method) ==
    IF i > Len(rs) THEN <<>>
    ELSE IF qualifies(rs[i], eventName, method)
         THEN <<rs[i]>> \o findMatchingNoBreakFrom(rs, i + 1, eventName, method)
         ELSE findMatchingNoBreakFrom(rs, i + 1, eventName, method)

findMatchingNoBreak(rs, eventName, method) ==
    findMatchingNoBreakFrom(rs, 1, eventName, method)

findMatchingRoutes(rs, eventName, method) == findMatchingFrom(rs, 1, eventName, method)

\* the scan evaluates a pattern whose regular expression does not compile
RECURSIVE findMatchingThrows(_, _, _, _)
findMatchingThrows(rs, i, eventName, method) ==
    IF i > Len(rs) THEN FALSE
    ELSE IF wildcardThrows(rs[i].event_match) THEN TRUE
    ELSE IF qualifies(rs[i], eventName, method) /\ ~rs[i].multi THEN FALSE
    ELSE findMatchingThrows(rs, i + 1, eventName, method)

(***************************************************************************)
(* auth.authenticate                                                       *)
(***************************************************************************)
\* a header value that is absent or the empty string is falsy
falsyString(str) == str \in {None, EmptyString}

\* an entry of the X-Forwarded-For header: its text, and whether white space
\* surrounds the text.  The header is the sequence of its comma-separated
\* entries: <<>> is no header, <<XffEntry("", FALSE)>> the empty header
XffEntry(text, spaces) == [text |-> text, spaces |-> spaces]

\* forwardedFor.split(',')[0].trim()
firstTrimmed(xff) == xff[1].text

\* utils.getClientIP: the first X-Forwarded-For entry, else the socket address
getClientIP(r) ==
    IF r.xff # <<>> /\ r.xff # <<XffEntry(EmptyString, FALSE)>> THEN firstTrimmed(r.xff)
    ELSE IF r.remote # None THEN r.remote
    ELSE "unknown"

\* origins = {} is a configuration without origins as well as the empty array:
\* the one is answered 'Invalid origins configuration', the other 'not in
\* whitelist'; the same holds of allowed_ips
authenticateOriginWhitelist(r, authConfig) ==
    IF falsyString(r.origin)
    THEN [success |-> FALSE, error |-> "Missing Origin header"]
    ELSE IF r.origin \notin authConfig.origins
    THEN [success |-> FALSE, error |-> "Origin not in whitelist"]
    ELSE [success |-> TRUE, error |-> None]

\* an authenticateApiKey that takes every key
authenticateApiKeyAnyKey(r, authConfig) ==
    IF falsyString(r.apikey)
    THEN [success |-> FALSE, error |-> "Missing x-api-key header"]
    ELSE [success |-> TRUE, error |-> None]

authenticateApiKey(r, authConfig) ==
    IF falsyString(r.apikey)
    THEN [success |-> FALSE, error |-> "Missing x-api-key header"]
    ELSE IF falsyString(authConfig.key)
    THEN [success |-> FALSE, error |-> "Invalid key configuration"]
    ELSE IF r.apikey # authConfig.key
    THEN [success |-> FALSE, error |-> "Invalid API key"]
    ELSE [success |-> TRUE, error |-> None]

authenticateIPWhitelist(r, authConfig) ==
    IF getClientIP(r) \notin authConfig.allowed_ips
    THEN [success |-> FALSE, error |-> "IP address not in whitelist"]
    ELSE [success |-> TRUE, error |-> None]

authenticate(r, authConfig) ==
    IF authConfig.type = None
    THEN [success |-> FALSE, error |-> "Missing authentication configuration"]
    ELSE IF authConfig.type = "whitelist" THEN authenticateOriginWhitelist(r, authConfig)
    ELSE IF authConfig.type = "apikey" THEN authenticateApiKey(r, authConfig)
    ELSE IF authConfig.type = "ip_whitelist" THEN authenticateIPWhitelist(r, authConfig)
    ELSE [success |-> FALSE, error |-> "Unknown authentication type"]

(***************************************************************************)
(* Router.sendToTarget.  What axios.post does is the outcome: a response   *)
(* with a status, a timeout, no response, or an error before sending.      *)
(***************************************************************************)
Responded(status) == [kind |-> "response", status |-> status]
TimedOut == [kind |-> "timeout", status |-> 0]
NoResponse == [kind |-> "noresponse", status |-> 0]

\* validateStatus of the axios call
validateStatus(status) == status < 500

sendToTarget(outcome) ==
    IF outcome.kind = "response" /\ validateStatus(outcome.status)
    THEN [success |-> TRUE, status |-> outcome.status, error |-> None, errorCode |-> None]
    ELSE IF outcome.kind = "timeout"
    THEN [success |-> FALSE, status |-> 0, error |-> "Request timeout",
          errorCode |-> "ECONNABORTED"]
    ELSE IF outcome.kind = "response"
    THEN [success |-> FALSE, status |-> 0, error |-> "HTTP status",
          errorCode |-> "HTTP_" \o ToString(outcome.status)]
    ELSE IF outcome.kind = "noresponse"
    THEN [success |-> FALSE, status |-> 0, error |-> "No response from target",
          errorCode |-> "NO_RESPONSE"]
    ELSE [success |-> FALSE, status |-> 0, error |-> "error.message", errorCode |-> None]

(***************************************************************************)
(* Payloads.  kind is the shape of the payload, name is events[0].name of  *)
(* a payload of kind "ok", and poison says that an object of the payload   *)
(* has an own key "hasOwnProperty", on which obj.hasOwnProperty(key) of    *)
(* DebugLogger._removeSensitiveFields and of utils.deepClone is a          *)
(* TypeError.                                                              *)
(***************************************************************************)
PayloadKinds == {"ok", "notObject", "noEvents", "emptyEvents", "nameNotString"}

Payload(kind, name, poison) == [kind |-> kind, name |-> name, poison |-> poison]

\* express.json leaves {} as the body of a request without one
EmptyBody == Payload("noEvents", <<>>, FALSE)

EmptyQuery == [en |-> Absent, enArray |-> FALSE, poison |-> FALSE]

PageView == <<"p", "a", "g", "e", "_", "v", "i", "e", "w">>

isValidGA4Payload(payload) == payload.kind = "ok"

getEventName(payload) == payload.name

\* utils.normalizeGetPayload: one event named query.en, else page_view; a
\* repeated en parameter is an array, not a string; a parameter
\* ep.hasOwnProperty becomes the key hasOwnProperty of the event's params
normalizeGetPayload(query) ==
    IF query.enArray THEN Payload("nameNotString", <<>>, query.poison)
    ELSE IF query.en = Absent \/ query.en = Some(<<>>)
         THEN Payload("ok", PageView, query.poison)
         ELSE Payload("ok", query.en[1], query.poison)

deepCloneThrows(payload) == payload.kind # "notObject" /\ payload.poison

(***************************************************************************)
(* The request of one processRequest call and the state of the call.       *)
(***************************************************************************)
Request(method, body, query, apikey) ==
    [method |-> method, path |-> "/g/collect", body |-> body, query |-> query,
     apikey |-> apikey, origin |-> None, xff |-> <<>>, remote |-> "10.0.0.1"]

NoRequest == Request(None, EmptyBody, EmptyQuery, None)

\* one step of the request as the outside sees it
Ev(e, route, info) == [e |-> e, route |-> route, info |-> info]

IdleRun ==
    [pc |-> "idle", req |-> NoRequest, payload |-> EmptyBody, mode |-> None,
     matching |-> <<>>, k |-> 0, inflight |-> Absent, status |-> None,
     results |-> <<>>,
     resp |-> Absent, trace |-> <<>>]

\* the state a handler works on: the call and the singletons it changes
Ctx(r, e, c) == [run |-> r, entries |-> e, cache |-> c]

Trace(s, e, route, info) == [s EXCEPT !.run.trace = Append(@, Ev(e, route, info))]

(***************************************************************************)
(* DebugLogger.logRequest and FileLogger.logRequest                        *)
(***************************************************************************)
\* _sanitizePayload(originalPayload) throws
debugLogThrows(payload) ==
    /\ maxEntries # 0
    /\ payload.kind # "notObject"
    /\ payload.poison

\* the limit that keeps the oldest entries
truncateOldest(es) ==
    IF Len(es) > maxEntries THEN SubSeq(es, Len(es) - maxEntries + 1, Len(es)) ELSE es

\* debug.js:52-54
truncate(es) == IF Len(es) > maxEntries THEN SubSeq(es, 1, maxEntries) ELSE es

debugLog(s, route, status) ==
    IF maxEntries = 0
    THEN Trace(s, "dlog", route, status)
    ELSE [Trace(s, "dlog", route, status) EXCEPT
            !.entries = truncate(<<[route |-> route, status |-> status]>> \o @)]

\* the file logger catches its own errors
fileLog(s, route, status) == Trace(s, "flog", route, status)

(***************************************************************************)
(* TemplateEngine.loadTemplate                                             *)
(***************************************************************************)
loadTemplateThrows(path, cache) == path \notin cache /\ path \notin templateFiles

(***************************************************************************)
(* JSON values, as the template engine sees them.  A string is the         *)
(* sequence of its characters; the fields a type does not use are empty.   *)
(***************************************************************************)
JValue(t, neg, n, str, keys, items) ==
    [t |-> t, neg |-> neg, n |-> n, s |-> str, keys |-> keys, items |-> items]

Undefined == JValue("undefined", FALSE, 0, <<>>, <<>>, <<>>)
JNull == JValue("null", FALSE, 0, <<>>, <<>>, <<>>)
JBool(b) == JValue(IF b THEN "true" ELSE "false", FALSE, 0, <<>>, <<>>, <<>>)
\* the number neg? n.frac
JNum(neg, n, frac) == JValue("number", neg, n, frac, <<>>, <<>>)
JStr(str) == JValue("string", FALSE, 0, str, <<>>, <<>>)
JArr(items) == JValue("array", FALSE, 0, <<>>, <<>>, items)
\* the object whose i-th own key, in insertion order, is keys[i]
JObj(keys, items) == JValue("object", FALSE, 0, <<>>, keys, items)
\* a function an object inherits from its prototype
JFunction == JValue("function", FALSE, 0, <<>>, <<>>, <<>>)

Digits == <<"0", "1", "2", "3", "4", "5", "6", "7", "8", "9">>
isDigit(c) == \E d \in 1..10 : Digits[d] = c
digitValue(c) == (CHOOSE d \in 1..10 : Digits[d] = c) - 1

\* the decimal digits of n
RECURSIVE decimal(_)
decimal(n) == IF n < 10 THEN <<Digits[n + 1]>> ELSE decimal(n \div 10) \o <<Digits[(n % 10) + 1]>>

\* parseInt(part, 10) of a string of digits
RECURSIVE parseDigits(_, _)
parseDigits(str, acc) ==
    IF str = <<>> THEN acc ELSE parseDigits(Tail(str), acc * 10 + digitValue(Head(str)))

\* /^\d+$/.test(str)
allDigits(str) == Len(str) > 0 /\ \A i \in 1..Len(str) : isDigit(str[i])

\* the names every object inherits from Object.prototype (some of them)
ObjectPrototypeKeys ==
    {<<"t", "o", "S", "t", "r", "i", "n", "g">>,
     <<"c", "o", "n", "s", "t", "r", "u", "c", "t", "o", "r">>}

LengthKey == <<"l", "e", "n", "g", "t", "h">>

\* String(value)
RECURSIVE String(_)
RECURSIVE join(_, _)
join(items, i) ==
    IF i > Len(items) THEN <<>>
    ELSE (IF i > 1 THEN <<",">> ELSE <<>>)
         \o (IF items[i].t \in {"null", "undefined"} THEN <<>> ELSE String(items[i]))
         \o join(items, i + 1)

String(value) ==
    CASE value.t = "undefined" -> <<"u", "n", "d", "e", "f", "i", "n", "e", "d">>
      [] value.t = "null" -> <<"n", "u", "l", "l">>
      [] value.t = "true" -> <<"t", "r", "u", "e">>
      [] value.t = "false" -> <<"f", "a", "l", "s", "e">>
      [] value.t = "number" ->
            (IF value.neg /\ (value.n # 0 \/ value.s # <<>>) THEN <<"-">> ELSE <<>>)
            \o decimal(value.n)
            \o (IF value.s # <<>> THEN <<".">> \o value.s ELSE <<>>)
      [] value.t = "string" -> value.s
      [] value.t = "array" -> join(value.items, 1)
      [] value.t = "object" ->
            <<"[", "o", "b", "j", "e", "c", "t", " ", "O", "b", "j", "e", "c", "t", "]">>
      [] OTHER -> <<"f", "u", "n", "c", "t", "i", "o", "n", " ", "(", ")", " ", "{", "}">>

(***************************************************************************)
(* TemplateEngine.getValueByPath                                           *)
(***************************************************************************)
\* str.split(sep): the pieces of str between the occurrences of sep
RECURSIVE split(_, _, _)
split(str, sep, piece) ==
    IF str = <<>> THEN <<piece>>
    ELSE IF Head(str) = sep THEN <<piece>> \o split(Tail(str), sep, <<>>)
    ELSE split(Tail(str), sep, Append(piece, Head(str)))

\* current[part] of an object or an array: own keys, then the prototype
property(current, part) ==
    IF current.t = "array"
    THEN IF allDigits(part) /\ parseDigits(part, 0) < Len(current.items)
              /\ decimal(parseDigits(part, 0)) = part
         THEN current.items[parseDigits(part, 0) + 1]
         ELSE IF part = LengthKey THEN JNum(FALSE, Len(current.items), <<>>)
         ELSE IF part \in ObjectPrototypeKeys THEN JFunction
         ELSE Undefined
    ELSE IF \E i \in 1..Len(current.keys) : current.keys[i] = part
         THEN current.items[CHOOSE i \in 1..Len(current.keys) : current.keys[i] = part]
         ELSE IF part \in ObjectPrototypeKeys THEN JFunction
         ELSE Undefined

RECURSIVE walk(_, _)
walk(parts, current) ==
    IF parts = <<>> THEN current
    ELSE IF current.t \in {"null", "undefined"} THEN Undefined
    ELSE IF current.t = "array" /\ allDigits(Head(parts))
    THEN walk(Tail(parts),
              IF parseDigits(Head(parts), 0) < Len(current.items)
              THEN current.items[parseDigits(Head(parts), 0) + 1]
              ELSE Undefined)
    ELSE IF current.t \in {"object", "array"}
    THEN walk(Tail(parts), property(current, Head(parts)))
    ELSE Undefined

getValueByPath(path, context) == walk(split(path, ".", <<>>), context)

(***************************************************************************)
(* TemplateEngine: tokens                                                  *)
(***************************************************************************)
MissingValue ==
    <<"_", "_", "M", "I", "S", "S", "I", "N", "G", "_", "V", "A", "L", "U", "E", "_", "_">>

\* str.includes(sub)
includesString(str, sub) ==
    \E i \in 0..(Len(str) - Len(sub)) : SubSeq(str, i + 1, i + Len(sub)) = sub

isSpace(c) == c = " "

\* str.trim()
RECURSIVE trimStart(_)
trimStart(str) ==
    IF str # <<>> /\ isSpace(Head(str)) THEN trimStart(Tail(str)) ELSE str

RECURSIVE trimEnd(_)
trimEnd(str) ==
    IF str # <<>> /\ isSpace(str[Len(str)]) THEN trimEnd(SubSeq(str, 1, Len(str) - 1))
    ELSE str

trim(str) == trimEnd(trimStart(str))

\* the rest of expression from position i matches \s*\|\|\s*(.+)$
restMatches(expression, i) ==
    LET bar == Len(expression) - Len(trimStart(SubSeq(expression, i, Len(expression)))) + 1
    IN  /\ bar + 1 <= Len(expression)
        /\ expression[bar] = "|" /\ expression[bar + 1] = "|"
        /\ bar + 2 <= Len(expression)

\* expression.match(/^(.+?)\s*\|\|\s*(.+)$/): the two groups, or no match
fallbackMatch(expression) ==
    LET ks == {k \in 1..Len(expression) : restMatches(expression, k + 1)}
    IN  IF ks = {} THEN [matched |-> FALSE, mainPath |-> <<>>, fallbackValue |-> <<>>]
        ELSE LET k == CHOOSE x \in ks : \A y \in ks : x <= y
                 afterK == SubSeq(expression, k + 1, Len(expression))
                 fromBar == trimStart(afterK)
                 afterBar == SubSeq(fromBar, 3, Len(fromBar))
                 group2 == IF trimStart(afterBar) # <<>> THEN trimStart(afterBar)
                           ELSE <<afterBar[Len(afterBar)]>>
             IN  [matched |-> TRUE, mainPath |-> SubSeq(expression, 1, k),
                  fallbackValue |-> group2]

\* /^-?\d+(\.\d+)?$/.test(str)
isNumberLiteral(str) ==
    LET body == IF str # <<>> /\ Head(str) = "-" THEN Tail(str) ELSE str
        parts == split(body, ".", <<>>)
    IN  /\ Len(parts) \in {1, 2}
        /\ \A i \in 1..Len(parts) : allDigits(parts[i])

\* the digits of a fraction without its trailing zeros
RECURSIVE stripZeros(_)
stripZeros(str) ==
    IF str # <<>> /\ str[Len(str)] = "0" THEN stripZeros(SubSeq(str, 1, Len(str) - 1))
    ELSE str

\* parseFloat of a number literal
parseFloat(str) ==
    LET neg == Head(str) = "-"
        parts == split(IF neg THEN Tail(str) ELSE str, ".", <<>>)
    IN  JNum(neg, parseDigits(parts[1], 0),
             IF Len(parts) = 2 THEN stripZeros(parts[2]) ELSE <<>>)

isQuote(c) == c = "'" \/ c = "\""

processFallbackValue(fallbackValue, context) ==
    IF fallbackValue # <<>> /\ isQuote(Head(fallbackValue))
       /\ fallbackValue[Len(fallbackValue)] = Head(fallbackValue)
    THEN JStr(SubSeq(fallbackValue, 2, Len(fallbackValue) - 1))
    ELSE IF fallbackValue = <<"n", "u", "l", "l">> THEN JNull
    ELSE IF fallbackValue = <<"t", "r", "u", "e">> THEN JBool(TRUE)
    ELSE IF fallbackValue = <<"f", "a", "l", "s", "e">> THEN JBool(FALSE)
    ELSE IF isNumberLiteral(fallbackValue) THEN parseFloat(fallbackValue)
    ELSE getValueByPath(fallbackValue, context)

resolveTokenExpression(expression, context) ==
    LET m == fallbackMatch(expression)
        mainValue == getValueByPath(trim(m.mainPath), context)
        fallback == processFallbackValue(trim(m.fallbackValue), context)
        value == getValueByPath(expression, context)
    IN  IF m.matched
        THEN IF mainValue # Undefined THEN String(mainValue)
             ELSE IF fallback # Undefined THEN String(fallback) ELSE MissingValue
        ELSE IF value # Undefined THEN String(value) ELSE MissingValue

\* the end of the token that starts at i: str[i..i+1] is {{, then one or
\* more characters that are not }, then }}; 0 if no token starts at i
tokenEnd(str, i) ==
    IF i + 1 <= Len(str) /\ str[i] = "{" /\ str[i + 1] = "{"
    THEN LET stops == {j \in (i + 2)..Len(str) : str[j] = "}"}
         IN  IF stops = {} THEN 0
             ELSE LET j == CHOOSE x \in stops : \A y \in stops : x <= y
                  IN  IF j > i + 2 /\ j + 1 <= Len(str) /\ str[j + 1] = "}"
                      THEN j + 1 ELSE 0
    ELSE 0

\* str.replace(/\{\{([^}]+)\}\}/g, ...): the result and whether a token was found
RECURSIVE replaceTokens(_, _, _)
replaceTokens(str, i, context) ==
    IF i > Len(str) THEN [resolved |-> <<>>, hasTokens |-> FALSE]
    ELSE IF tokenEnd(str, i) = 0
    THEN LET rest == replaceTokens(str, i + 1, context)
         IN  [resolved |-> <<str[i]>> \o rest.resolved, hasTokens |-> rest.hasTokens]
    ELSE LET e == tokenEnd(str, i)
             rest == replaceTokens(str, e + 1, context)
         IN  [resolved |-> resolveTokenExpression(trim(SubSeq(str, i + 2, e - 2)), context)
                              \o rest.resolved,
              hasTokens |-> TRUE]

\* a resolveStringTokens that renders a leaf with its missing tokens left in
resolveStringTokensKeepHole(str, context) ==
    LET r == replaceTokens(str, 1, context)
    IN  IF ~r.hasTokens THEN JStr(str) ELSE JStr(r.resolved)

resolveStringTokens(str, context) ==
    LET r == replaceTokens(str, 1, context)
    IN  IF ~r.hasTokens THEN JStr(str)
        ELSE IF includesString(r.resolved, MissingValue) THEN Undefined
        ELSE JStr(r.resolved)

RECURSIVE resolveTokens(_, _)
\* the resolved items of obj from the i-th on, without the undefined ones
RECURSIVE resolveItems(_, _, _)
resolveItems(obj, i, context) ==
    IF i > Len(obj.items) THEN [keys |-> <<>>, items |-> <<>>]
    ELSE LET resolved == resolveTokens(obj.items[i], context)
             rest == resolveItems(obj, i + 1, context)
         IN  IF resolved # Undefined
             THEN [keys |-> (IF obj.t = "object" THEN <<obj.keys[i]>> ELSE <<>>) \o rest.keys,
                   items |-> <<resolved>> \o rest.items]
             ELSE rest

resolveTokens(obj, context) ==
    IF obj.t = "string" THEN resolveStringTokens(obj.s, context)
    ELSE IF obj.t = "array" THEN JArr(resolveItems(obj, 1, context).items)
    ELSE IF obj.t = "object"
    THEN JObj(resolveItems(obj, 1, context).keys, resolveItems(obj, 1, context).items)
    ELSE obj

MetaKey == <<"m", "e", "t", "a">>

\* {...payload, meta}
spreadMeta(payload, meta) ==
    IF \E i \in 1..Len(payload.keys) : payload.keys[i] = MetaKey
    THEN JObj(payload.keys,
              [i \in 1..Len(payload.keys) |->
                  IF payload.keys[i] = MetaKey THEN meta ELSE payload.items[i]])
    ELSE JObj(Append(payload.keys, MetaKey), Append(payload.items, meta))

\* processTemplate, the template loaded
processTemplate(template, payload, meta) ==
    resolveTokens(template, spreadMeta(payload, meta))

(***************************************************************************)
(* Responses.                                                              *)
(***************************************************************************)
Response(code, status, processed, fallback, event, error, allow) ==
    [code |-> code, status |-> status, processed |-> processed, fallback |-> fallback,
     event |-> event, error |-> error, allow |-> allow, matched_routes |-> Absent]

ErrorBody(code, detail, generic) ==
    Response(code, None, 0, FALSE, Absent,
             IF debugLogging THEN detail ELSE generic, Absent)

respond(s, r) ==
    [Trace(s, "respond", "-", ToString(r.code)) EXCEPT
        !.run.pc = "responded", !.run.resp = Some(r)]

\* the promise of processRequest is rejected and nothing handles it
unhandledRejection(s) == [s EXCEPT !.run.pc = "rejected"]

(***************************************************************************)
(* Router.processRequest, from an exception caught at router.js:168        *)
(***************************************************************************)
processCatch(s) ==
    IF debugLogThrows(s.run.req.body)
    THEN unhandledRejection(s)
    ELSE respond(debugLog(s, "-", "router_error"),
                 ErrorBody(500, "error.message", "Internal Server Error"))

\* the aggregation over a result list that all requests share
aggregateShared(s) ==
    LET other(id) == ~(/\ Len(run[id].trace) <= Len(s.run.trace)
                        /\ SubSeq(s.run.trace, 1, Len(run[id].trace)) = run[id].trace)
        results == s.run.results \o (IF other(1) THEN run[1].results ELSE <<>>)
                                 \o (IF other(2) THEN run[2].results ELSE <<>>)
        successCount == Cardinality({i \in 1..Len(results) : results[i].success})
    IN  IF successCount > 0
        THEN respond(s, Response(200, "success", successCount, FALSE, Absent, None, Absent))
        ELSE respond(s, ErrorBody(500, "All routes failed", "Internal Server Error"))

\* the aggregation that counts every result as processed
aggregateCountAll(s) ==
    LET results == s.run.results
    IN  IF Len(results) > 0
        THEN respond(s, Response(200, "success", Len(results), FALSE, Absent, None, Absent))
        ELSE respond(s, ErrorBody(500, "All routes failed", "Internal Server Error"))

\* router.js:154-166
aggregate(s) ==
    LET results == s.run.results
        successCount == Cardinality({i \in 1..Len(results) : results[i].success})
    IN  IF successCount > 0
        THEN respond(s, Response(200, "success", successCount, FALSE, Absent, None, Absent))
        ELSE respond(s, ErrorBody(500, "All routes failed", "Internal Server Error"))

\* router.js:426-432
fallbackResponse(s, result) ==
    IF result.success
    THEN respond(s, Response(200, "success", 1, TRUE, Absent, None, Absent))
    ELSE respond(s, ErrorBody(500, "Fallback route failed", "Internal Server Error"))

Result(success, route, status, error) ==
    [success |-> success, route |-> route.name, status |-> status, error |-> error]

(***************************************************************************)
(* Router.executeRoute, and the loop of Router.executeRoutes around it.    *)
(* executeStart runs a route up to its outbound POST, executeFinish from   *)
(* the answer of the POST, executeCatch is the catch block, and            *)
(* afterRoute is what the caller does with the result.                     *)
(***************************************************************************)
RECURSIVE executeStart(_, _)
RECURSIVE afterRoute(_, _)

\* router.js:344-358; an exception of the catch block rejects executeRoute,
\* which processRequest catches
executeCatch(s, route) ==
    IF debugLogThrows(s.run.payload)
    THEN processCatch(Trace(s, "throw", route.name, "-"))
    ELSE afterRoute(debugLog(s, route.name, "execution_error"),
                    Result(FALSE, route, 0, "error.message"))

\* router.js:209-218 and 422-433
afterRoute(s, result) ==
    LET s1 == [Trace(s, "result", result.route, IF result.success THEN "ok" ELSE "fail")
                 EXCEPT !.run.results = Append(@, result)]
    IN  IF s1.run.mode = "fallback" THEN fallbackResponse(s1, result)
        ELSE IF s1.run.k < Len(s1.run.matching)
        THEN executeStart([s1 EXCEPT !.run.k = @ + 1], s1.run.matching[s1.run.k + 1])
        ELSE aggregate(s1)

\* router.js:228-282
executeStart(s, route) ==
    LET authResult == authenticate(s.run.req, route.auth)
        s1 == Trace(s, "auth", route.name, IF authResult.success THEN "ok" ELSE "fail")
    IN  IF ~authResult.success
        THEN IF debugLogThrows(s1.run.payload)
             THEN executeCatch(s1, route)
             ELSE afterRoute(fileLog(debugLog(s1, route.name, "auth_failed"),
                                     route.name, "auth_failed"),
                             Result(FALSE, route, 0, authResult.error))
        ELSE IF truthy(route.template)
        THEN IF loadTemplateThrows(route.template, s1.cache)
             THEN executeCatch(s1, route)
             ELSE [Trace(s1, "post", route.name, "template") EXCEPT
                      !.cache = @ \cup {route.template}, !.run.pc = "await",
                      !.run.inflight = Some(route), !.run.status = "success"]
        ELSE IF deepCloneThrows(s1.run.payload)
             THEN executeCatch(s1, route)
             ELSE [Trace(s1, "post", route.name, "passthrough") EXCEPT
                      !.run.pc = "await", !.run.inflight = Some(route),
                      !.run.status = "passthrough"]

\* executeFinish that goes on to the next route before it logs the outcome
executeFinishLogLate(s0, outcome) ==
    LET httpResult == sendToTarget(outcome)
        route == s0.run.inflight[1]
        s == [Trace(s0, "answer", route.name, IF httpResult.success THEN "ok" ELSE "fail")
                EXCEPT !.run.inflight = Absent, !.run.pc = "running"]
    IN  IF debugLogThrows(s.run.payload)
        THEN executeCatch(s, route)
        ELSE debugLog(afterRoute(s, Result(httpResult.success, route, httpResult.status,
                                           httpResult.error)),
                      route.name, IF httpResult.success THEN s.run.status ELSE "http_error")

\* executeFinish that sends the POST again when it has failed
executeFinishRetry(s0, outcome) ==
    LET httpResult == sendToTarget(outcome)
        route == s0.run.inflight[1]
        s == Trace(s0, "answer", route.name, IF httpResult.success THEN "ok" ELSE "fail")
    IN  IF ~httpResult.success
        THEN Trace(s, "post", route.name, s.run.status)
        ELSE afterRoute(fileLog(debugLog([s EXCEPT !.run.inflight = Absent,
                                                   !.run.pc = "running"],
                                         route.name, s.run.status),
                                route.name, s.run.status),
                        Result(TRUE, route, httpResult.status, None))

\* router.js:282-342
executeFinish(s0, outcome) ==
    LET httpResult == sendToTarget(outcome)
        route == s0.run.inflight[1]
        s == [Trace(s0, "answer", route.name, IF httpResult.success THEN "ok" ELSE "fail")
                EXCEPT !.run.inflight = Absent, !.run.pc = "running"]
    IN  IF debugLogThrows(s.run.payload)
        THEN executeCatch(s, route)
        ELSE IF ~httpResult.success
        THEN afterRoute(fileLog(debugLog(s, route.name, "http_error"),
                                route.name, "forwarding_error"),
                        Result(FALSE, route, 0, httpResult.error))
        ELSE afterRoute(fileLog(debugLog(s, route.name, s.run.status),
                                route.name, s.run.status),
                        Result(TRUE, route, httpResult.status, None))

(***************************************************************************)
(* Router.validateRequestMethod                                            *)
(***************************************************************************)
validateRequestMethod(method, rs) ==
    [valid |-> \E i \in 1..Len(rs) :
                  rs[i].methods # Absent /\ method \in rs[i].methods[1],
     allowedMethods |->
        UNION {IF rs[i].methods # Absent THEN rs[i].methods[1] ELSE {"POST"} :
               i \in 1..Len(rs)}]

(***************************************************************************)
(* Router.handleUnmatchedEvent                                             *)
(***************************************************************************)
\* handleUnmatchedEvent without the fallback branch
handleUnmatchedNoFallback(s) ==
    IF debugLogThrows(s.run.payload)
    THEN processCatch(s)
    ELSE respond(fileLog(debugLog(s, "-", "unmatched"), "-", "unmatched"),
                 Response(200, "unmatched", 0, FALSE, Some(getEventName(s.run.payload)),
                          None, Absent))

handleUnmatchedEvent(s) ==
    IF fallbackRoute # Absent
    THEN executeStart([s EXCEPT !.run.mode = "fallback"], fallbackRoute[1])
    ELSE IF debugLogThrows(s.run.payload)
    THEN processCatch(s)
    ELSE respond(fileLog(debugLog(s, "-", "unmatched"), "-", "unmatched"),
                 Response(200, "unmatched", 0, FALSE, Some(getEventName(s.run.payload)),
                          None, Absent))

(***************************************************************************)
(* Router.processRequest, up to the first outbound POST or the response    *)
(***************************************************************************)
processRequest(s0, r) ==
    LET allRoutes == routes \o fallbackRoute
        methodValidation == validateRequestMethod(r.method, allRoutes)
        payload == IF r.method = "GET" THEN normalizeGetPayload(r.query) ELSE r.body
        s == [s0 EXCEPT !.run.pc = "running", !.run.req = r]
        sp == [s EXCEPT !.run.payload = payload]
        eventName == getEventName(payload)
        matchingRoutes == findMatchingRoutes(routes, eventName, r.method)
    IN  IF ~methodValidation.valid
        THEN respond(fileLog(debugLog(s, "-", "method_not_allowed"),
                             "-", "method_not_allowed"),
                     Response(405, None, 0, FALSE, Absent, "Method Not Allowed",
                              Some(methodValidation.allowedMethods)))
        ELSE IF ~isValidGA4Payload(payload)
        THEN IF debugLogThrows(payload)
             THEN processCatch(sp)
             ELSE respond(fileLog(debugLog(sp, "-", "validation_error"),
                                  "-", "validation_error"),
                          ErrorBody(400, "Invalid payload: missing events[0].name",
                                    "Bad Request"))
        ELSE IF findMatchingThrows(routes, 1, eventName, r.method)
        THEN processCatch(sp)
        ELSE IF Len(matchingRoutes) = 0
        THEN handleUnmatchedEvent(sp)
        ELSE executeStart([sp EXCEPT !.run.mode = "routes",
                                     !.run.matching = matchingRoutes, !.run.k = 1],
                          matchingRoutes[1])

(***************************************************************************)
(* Router.processDryRun                                                    *)
(***************************************************************************)
\* one element of matched_routes
DryRunEntry(route, auth_error, transformed_payload) ==
    [route |-> route.name, target_url |-> route.target_url,
     auth_error |-> auth_error, transformed_payload |-> transformed_payload]

DryRunResponse(results) ==
    [Response(200, None, 0, FALSE, Absent, None, Absent) EXCEPT
        !.matched_routes = Some(results)]

\* router.js:512-517
dryRunCatch(s, route) ==
    respond(Trace(s, "throw", route, "-"),
            ErrorBody(500, "error.message", "Internal Server Error"))

\* router.js:483-508, from the i-th matched route on
RECURSIVE dryRunFrom(_, _, _)
dryRunFrom(s, i, results) ==
    IF i > Len(s.run.matching) THEN respond(s, DryRunResponse(results))
    ELSE LET route == s.run.matching[i]
             authResult == authenticate(s.run.req, route.auth)
             s1 == Trace(s, "auth", route.name, IF authResult.success THEN "ok" ELSE "fail")
         IN  IF ~authResult.success
             THEN dryRunFrom(Trace(s1, "entry", route.name, "auth_error"), i + 1,
                             Append(results, DryRunEntry(route, authResult.error, None)))
             ELSE IF truthy(route.template)
             THEN IF loadTemplateThrows(route.template, s1.cache)
                  THEN dryRunCatch(s1, route.name)
                  ELSE dryRunFrom([Trace(s1, "entry", route.name, "template")
                                     EXCEPT !.cache = @ \cup {route.template}],
                                  i + 1,
                                  Append(results, DryRunEntry(route, None, "template")))
             ELSE IF deepCloneThrows(s1.run.payload)
                  THEN dryRunCatch(s1, route.name)
                  ELSE dryRunFrom(Trace(s1, "entry", route.name, "passthrough"), i + 1,
                                  Append(results, DryRunEntry(route, None, "passthrough")))

processDryRun(s0, r) ==
    LET payload == r.body
        s == [s0 EXCEPT !.run.pc = "running", !.run.req = r, !.run.payload = payload,
                        !.run.mode = "dryrun"]
        eventName == getEventName(payload)
    IN  IF ~isValidGA4Payload(payload)
        THEN respond(s, ErrorBody(400, "Invalid payload: missing events[0].name",
                                  "Bad Request"))
        ELSE IF findMatchingThrows(routes, 1, eventName, r.method)
        THEN dryRunCatch(s, "-")
        ELSE dryRunFrom([s EXCEPT !.run.matching =
                                     findMatchingRoutes(routes, eventName, r.method)],
                        1, <<>>)

(***************************************************************************)
(* Server.setupRoutes: the handler express gives a request to              *)
(***************************************************************************)
Paths == {"/g/collect", "/dry-run", "/health", "/debug", "/favicon.ico"}

serverHandler(method, path) ==
    IF method = "GET" /\ path = "/health" THEN "health"
    ELSE IF method = "POST" /\ path = "/g/collect" THEN "handleEventCollection"
    ELSE IF method = "GET" /\ path = "/debug" THEN "handleDebugRequest"
    ELSE IF method = "POST" /\ path = "/dry-run" THEN "handleDryRunRequest"
    ELSE "notFound"

serve(s0, r) ==
    LET handler == serverHandler(r.method, r.path)
        s == Trace(s0, "handler", "-", handler)
        sr == [s EXCEPT !.run.pc = "running", !.run.req = r]
    IN  IF handler = "handleEventCollection" THEN processRequest(s, r)
        ELSE IF handler = "handleDryRunRequest" THEN processDryRun(s, r)
        ELSE IF handler = "health"
        THEN respond(sr, Response(200, "ok", 0, FALSE, Absent, None, Absent))
        ELSE IF handler = "handleDebugRequest"
        THEN respond(sr, Response(200, "debug", 0, FALSE, Absent, None, Absent))
        ELSE respond(sr, Response(404, None, 0, FALSE, Absent, "Not Found", Absent))

(***************************************************************************)
(* The state after construction: the singletons of router.js, debug.js and *)
(* the template engine as their constructors leave them, and a loaded      *)
(* configuration.                                                          *)
(***************************************************************************)
\* a part of a template string: literal text, or the token {{path}} or
\* {{path || fallback}}
Lit(text) == [tok |-> FALSE, text |-> text, path |-> <<>>, fallback |-> <<>>]
Tok(path, fallback) == [tok |-> TRUE, text |-> <<>>, path |-> path, fallback |-> fallback]

\* the text of a token expression
expressionOf(part) ==
    IF part.fallback = <<>> THEN part.path
    ELSE part.path \o <<" ", "|", "|", " ">> \o part.fallback

\* the template string made of the parts
RECURSIVE leafString(_)
leafString(parts) ==
    IF parts = <<>> THEN <<>>
    ELSE (IF Head(parts).tok
          THEN <<"{", "{">> \o expressionOf(Head(parts)) \o <<"}", "}">>
          ELSE Head(parts).text)
         \o leafString(Tail(parts))

\* createRequestMeta(req)
Meta ==
    JObj(<<<<"i", "p">>,
           <<"u", "s", "e", "r", "_", "a", "g", "e", "n", "t">>,
           <<"t", "i", "m", "e", "s", "t", "a", "m", "p">>>>,
         <<JStr(<<"1", "0", ".", "0", ".", "0", ".", "1">>), JStr(<<"c", "u", "r", "l">>),
           JNum(FALSE, 1700000000, <<>>)>>)

\* a call of the template engine: op is the method called, leaves the
\* string leaves of the template by their parts, and out the result
RenderCall(shape, leaves, payload) ==
    [op |-> "none", shape |-> shape, leaves |-> leaves, payload |-> payload,
     part |-> Lit(<<>>), out |-> Undefined]

NoRender == RenderCall("none", <<>>, JNull)

\* the template document of the call: an object with one key per leaf, or
\* an array of the leaves
KeyNames == <<<<"k">>, <<"l">>, <<"m">>>>

templateOf(rc) ==
    IF rc.shape = "object"
    THEN JObj(SubSeq(KeyNames, 1, Len(rc.leaves)),
              [i \in 1..Len(rc.leaves) |-> JStr(leafString(rc.leaves[i]))])
    ELSE JArr([i \in 1..Len(rc.leaves) |-> JStr(leafString(rc.leaves[i]))])

\* a call fn(args) that has not been made yet, and no call at all
Call(fn, args) == [fn |-> fn, args |-> args, done |-> FALSE, out |-> None]

NoCall == Call("none", <<>>)

\* no template has been changed since startup
NoEdits == [disk |-> {}, cache |-> {}]

DefaultMaxEntries == 100

(***************************************************************************)
(* Config.load.  The environment is [DEBUG_LOG_MAX, DEBUG_MAX_ENTRIES,     *)
(* defined]: a setting is <<>> if unset and <<str>> if set, defined is the *)
(* set of the other variables that are defined.  A route of routes.json is *)
(* a record in which event_match and target_url are <<>> if missing or     *)
(* empty, auth is <<>> or <<a>>, the type of a is None if a has no type,   *)
(* priority says whether it is set and whether it is an integer, and       *)
(* envTokens is the set of the {{NAME}} tokens in the strings of the       *)
(* route.                                                                  *)
(***************************************************************************)
MaxRetention == 1000

\* the number of decimal digits str begins with
leadingDigits(str) ==
    CHOOSE k \in 0..Len(str) :
        /\ \A i \in 1..k : isDigit(str[i])
        /\ k = Len(str) \/ ~isDigit(str[k + 1])

\* parseInt(str) of a string without a radix prefix: white space and a sign
\* are skipped, the digits up to the first other character are read, and
\* the result is NaN if there is none
parseInt(str) ==
    LET t == trimStart(str)
        signed == t # <<>> /\ Head(t) \in {"-", "+"}
        body == IF signed THEN Tail(t) ELSE t
        k == leadingDigits(body)
        n == parseDigits(SubSeq(body, 1, k), 0)
    IN  [nan |-> k = 0, value |-> IF signed /\ Head(t) = "-" THEN 0 - n ELSE n]

\* config.js:40-46 and 53-59
clampEntries(n) == IF n < 0 THEN 0 ELSE IF n > MaxRetention THEN MaxRetention ELSE n

\* the retention part of Config._loadEnvironmentVariables: it throws, or
\* sets debugMaxEntries
loadEnvironmentVariables(env) ==
    LET setting == IF env.DEBUG_LOG_MAX # Absent THEN env.DEBUG_LOG_MAX
                   ELSE env.DEBUG_MAX_ENTRIES
    IN  IF setting = Absent THEN [throws |-> FALSE, debugMaxEntries |-> DefaultMaxEntries]
        ELSE IF parseInt(setting[1]).nan
        THEN [throws |-> TRUE, debugMaxEntries |-> DefaultMaxEntries]
        ELSE [throws |-> FALSE, debugMaxEntries |-> clampEntries(parseInt(setting[1]).value)]

\* Config._validateAuthentication: the error it throws, or None
validateAuthentication(auth) ==
    LET strategyCount == (IF auth.origins # {} THEN 1 ELSE 0)
                         + (IF ~falsyString(auth.key) THEN 1 ELSE 0)
                         + (IF auth.allowed_ips # {} THEN 1 ELSE 0)
    IN  IF auth.type = None THEN "auth missing type field"
        ELSE IF strategyCount > 1 THEN "multiple authentication strategies defined"
        ELSE IF auth.type = "whitelist"
        THEN IF auth.origins = {} THEN "whitelist auth requires origins array" ELSE None
        ELSE IF auth.type = "apikey"
        THEN IF falsyString(auth.key) THEN "apikey auth requires key field" ELSE None
        ELSE IF auth.type = "ip_whitelist"
        THEN IF auth.allowed_ips = {} THEN "ip_whitelist auth requires allowed_ips array"
             ELSE None
        ELSE "unknown auth type"

\* the body of the loop of Config._validateRoutes: the error it throws for
\* the route, or None
validateRoute(route, env) ==
    IF route.event_match = <<>> THEN "missing required field event_match"
    ELSE IF route.target_url = <<>> THEN "missing required field target_url"
    ELSE IF route.auth = Absent THEN "missing required field auth"
    ELSE IF validateAuthentication(route.auth[1]) # None
    THEN validateAuthentication(route.auth[1])
    ELSE IF route.priority.set /\ ~route.priority.integer THEN "priority must be an integer"
    ELSE IF truthy(route.template) /\ route.template \notin templateFiles
    THEN "template file not found or invalid JSON"
    ELSE IF ~(route.envTokens \subseteq env.defined)
    THEN "environment variable is not defined"
    ELSE None

\* Config._validateRoutes without the check for a second fallback route
validateRoutesAnyFallbacks(rawRoutes, env) ==
    IF \E i \in 1..Len(rawRoutes) : validateRoute(rawRoutes[i], env) # None
    THEN validateRoute(rawRoutes[CHOOSE i \in 1..Len(rawRoutes) :
                                    /\ validateRoute(rawRoutes[i], env) # None
                                    /\ \A j \in 1..(i - 1) :
                                          validateRoute(rawRoutes[j], env) = None], env)
    ELSE None

\* Config._validateRoutes: the error of the first route that has one, else
\* the error of a second fallback route, else None
validateRoutes(rawRoutes, env) ==
    IF \E i \in 1..Len(rawRoutes) : validateRoute(rawRoutes[i], env) # None
    THEN validateRoute(rawRoutes[CHOOSE i \in 1..Len(rawRoutes) :
                                    /\ validateRoute(rawRoutes[i], env) # None
                                    /\ \A j \in 1..(i - 1) :
                                          validateRoute(rawRoutes[j], env) = None], env)
    ELSE IF Cardinality({i \in 1..Len(rawRoutes) : rawRoutes[i].fallback}) > 1
    THEN "Multiple fallback routes defined"
    ELSE None

\* the route the rest of the program sees
configured(route) ==
    [name |-> route.name, event_match |-> route.event_match,
     target_url |-> route.target_url, methods |-> route.methods, multi |-> route.multi,
     fallback |-> route.fallback,
     priority |-> IF route.priority.set THEN Some(route.priority.n) ELSE Absent,
     auth |-> route.auth[1], template |-> route.template]

\* config.load(): the error it throws or None, and what it has set
load(env, rawRoutes) ==
    LET e == loadEnvironmentVariables(env)
    IN  IF e.throws
        THEN [error |-> "must be a valid integer", debugMaxEntries |-> DefaultMaxEntries,
              routes |-> <<>>]
        ELSE IF validateRoutes(rawRoutes, env) # None
        THEN [error |-> validateRoutes(rawRoutes, env),
              debugMaxEntries |-> e.debugMaxEntries, routes |-> <<>>]
        ELSE [error |-> None, debugMaxEntries |-> e.debugMaxEntries,
              routes |-> [i \in 1..Len(rawRoutes) |-> configured(rawRoutes[i])]]

ReqIds == {1, 2}

Constructed ==
    /\ routes = <<>>
    /\ fallbackRoute = Absent
    /\ initialized = FALSE
    /\ maxEntries = DefaultMaxEntries
    /\ entries = <<>>
    /\ templateCache = {}
    /\ templateEdits = NoEdits
    /\ matchOut = Absent
    /\ run = [id \in ReqIds |-> IdleRun]
    /\ crashed = FALSE
    /\ render = NoRender
    /\ call = NoCall

(***************************************************************************)
(* Actions.                                                                *)
(***************************************************************************)
\* Server.initializeComponents: debugLogger.initialize and Router.initialize
Initialize ==
    /\ ~initialized
    /\ initialized' = TRUE
    /\ maxEntries' = debugMaxEntries
    /\ routes' = sortRoutesByPriority(filterRoutes(cfgRoutes, FALSE))
    /\ fallbackRoute' = LET fallbackRoutes == filterRoutes(cfgRoutes, TRUE)
                        IN  IF Len(fallbackRoutes) > 0 THEN Some(fallbackRoutes[1])
                            ELSE Absent
    /\ UNCHANGED <<cfgRoutes, debugMaxEntries, debugLogging, entries, templateFiles, templateEdits,
                   templateCache, matchOut, run, crashed, render, call>>

\* a call of router.findMatchingRoutes(eventName, method)
FindMatches(eventName, method) ==
    /\ initialized
    /\ ~crashed
    /\ ~findMatchingThrows(routes, 1, eventName, method)
    /\ matchOut' = Some([eventName |-> eventName, method |-> method,
                         matching |-> findMatchingRoutes(routes, eventName, method)])
    /\ UNCHANGED <<cfgRoutes, debugMaxEntries, debugLogging, routes, fallbackRoute,
                   initialized, maxEntries, entries, templateFiles, templateEdits, templateCache,
                   run, crashed, render, call>>

\* what a handler leaves behind
Leave(id, s) ==
    /\ run' = [run EXCEPT ![id] = s.run]
    /\ entries' = s.entries
    /\ templateCache' = s.cache
    /\ templateEdits' = [templateEdits EXCEPT
                            !.cache = @ \cup ((s.cache \ templateCache) \cap templateEdits.disk)]
    /\ crashed' = (s.run.pc = "rejected")
    /\ UNCHANGED <<cfgRoutes, debugMaxEntries, debugLogging, routes, fallbackRoute,
                   initialized, maxEntries, templateFiles, matchOut, render, call>>

\* the file of a template is given another content, valid JSON as well
EditTemplate(path) ==
    /\ initialized
    /\ path \in templateFiles
    /\ path \notin templateEdits.disk
    /\ templateEdits' = [templateEdits EXCEPT !.disk = @ \cup {path}]
    /\ UNCHANGED <<cfgRoutes, debugMaxEntries, debugLogging, routes, fallbackRoute,
                   initialized, maxEntries, entries, templateFiles, templateCache,
                   matchOut, run, crashed, render, call>>

\* the file of a template is deleted
DeleteTemplate(path) ==
    /\ initialized
    /\ path \in templateFiles
    /\ templateFiles' = templateFiles \ {path}
    /\ templateEdits' = [templateEdits EXCEPT !.disk = @ \ {path}]
    /\ UNCHANGED <<cfgRoutes, debugMaxEntries, debugLogging, routes, fallbackRoute,
                   initialized, maxEntries, entries, templateCache, matchOut, run,
                   crashed, render, call>>

\* request r arrives: router.processRequest(req, res) runs to its first await
Receive(id, r) ==
    /\ initialized
    /\ ~crashed
    /\ run[id].pc = "idle"
    /\ Leave(id, processRequest(Ctx(run[id], entries, templateCache), r))

\* the outbound POST of request id ends: executeRoute resumes
Complete(id, outcome) ==
    /\ ~crashed
    /\ run[id].pc = "await"
    /\ Leave(id, executeFinish(Ctx(run[id], entries, templateCache), outcome))

\* templateEngine.processTemplate(template, payload, meta), the template loaded
Render ==
    /\ render.op = "none"
    /\ render.shape # "none"
    /\ render' = [render EXCEPT !.op = "processTemplate",
                                !.out = processTemplate(templateOf(render), render.payload,
                                                        Meta)]
    /\ UNCHANGED <<cfgRoutes, debugMaxEntries, debugLogging, routes, fallbackRoute,
                   initialized, maxEntries, entries, templateFiles, templateEdits, templateCache,
                   matchOut, run, crashed, call>>

\* templateEngine.resolveTokenExpression(expression, context) for a token
ResolveToken(part) ==
    /\ render.op = "none"
    /\ render.shape # "none"
    /\ render' = [render EXCEPT !.op = "resolveTokenExpression", !.part = part,
                                !.out = JStr(resolveTokenExpression(
                                                expressionOf(part),
                                                spreadMeta(render.payload, Meta)))]
    /\ UNCHANGED <<cfgRoutes, debugMaxEntries, debugLogging, routes, fallbackRoute,
                   initialized, maxEntries, entries, templateFiles, templateEdits, templateCache,
                   matchOut, run, crashed, call>>

\* templateEngine.getValueByPath(path, context)
ResolvePath(path) ==
    /\ render.op = "none"
    /\ render.shape # "none"
    /\ render' = [render EXCEPT !.op = "getValueByPath", !.part = Tok(path, <<>>),
                                !.out = getValueByPath(path,
                                                       spreadMeta(render.payload, Meta))]
    /\ UNCHANGED <<cfgRoutes, debugMaxEntries, debugLogging, routes, fallbackRoute,
                   initialized, maxEntries, entries, templateFiles, templateEdits, templateCache,
                   matchOut, run, crashed, call>>

\* matchesWildcard(pattern, value): its answer, or the SyntaxError of new RegExp
MatchWildcard ==
    /\ call.fn = "matchesWildcard"
    /\ ~call.done
    /\ call' = [call EXCEPT !.done = TRUE,
                            !.out = IF wildcardThrows(call.args[1]) THEN "SyntaxError"
                                    ELSE matchesWildcard(call.args[1], call.args[2])]
    /\ UNCHANGED <<cfgRoutes, debugMaxEntries, debugLogging, routes, fallbackRoute,
                   initialized, maxEntries, entries, templateFiles, templateEdits, templateCache,
                   matchOut, run, crashed, render>>

\* authManager.authenticate(req, authConfig)
Authenticate ==
    /\ call.fn = "authenticate"
    /\ ~call.done
    /\ call' = [call EXCEPT !.done = TRUE,
                            !.out = authenticate(call.args[1], call.args[2])]
    /\ UNCHANGED <<cfgRoutes, debugMaxEntries, debugLogging, routes, fallbackRoute,
                   initialized, maxEntries, entries, templateFiles, templateEdits, templateCache,
                   matchOut, run, crashed, render>>

\* validateStartupRequirements throws; routes.json and the templates
\* directory exist
validateStartupRequirementsThrows(env) ==
    /\ env.DEBUG_MAX_ENTRIES # Absent
    /\ parseInt(env.DEBUG_MAX_ENTRIES[1]).nan

\* startServer: validateStartupRequirements() and config.load(); an error
\* ends the process
LoadConfig ==
    /\ call.fn = "load"
    /\ ~call.done
    /\ LET loaded == IF validateStartupRequirementsThrows(call.args[1])
                     THEN [error |-> "STARTUP ERROR", debugMaxEntries |-> DefaultMaxEntries,
                           routes |-> <<>>]
                     ELSE load(call.args[1], call.args[2])
       IN  /\ call' = [call EXCEPT !.done = TRUE,
                                   !.out = IF loaded.error # None THEN "exit" ELSE "loaded"]
           /\ crashed' = (loaded.error # None)
           /\ cfgRoutes' = loaded.routes
           /\ debugMaxEntries' = loaded.debugMaxEntries
    /\ UNCHANGED <<debugLogging, routes, fallbackRoute, initialized, maxEntries, entries,
                   templateFiles, templateEdits, templateCache, matchOut, run, render>>

\* startServer after config.load(): new Server() and server.start()
StartServer ==
    /\ call.fn = "load"
    /\ call.done
    /\ call.out = "loaded"
    /\ Initialize

\* the handler that pushes the fallback route onto the route list itself
\* and not onto a copy of it
HttpSharedRoutes(id, r) ==
    /\ initialized
    /\ ~crashed
    /\ run[id].pc = "idle"
    /\ LET s == serve(Ctx(run[id], entries, templateCache), r)
       IN  /\ run' = [run EXCEPT ![id] = s.run]
           /\ entries' = s.entries
           /\ templateCache' = s.cache
           /\ templateEdits' = [templateEdits EXCEPT
                                   !.cache = @ \cup ((s.cache \ templateCache)
                                                     \cap templateEdits.disk)]
           /\ crashed' = (s.run.pc = "rejected")
    /\ routes' = IF serverHandler(r.method, r.path) = "handleEventCollection"
                 THEN routes \o fallbackRoute ELSE routes
    /\ UNCHANGED <<cfgRoutes, debugMaxEntries, debugLogging, fallbackRoute,
                   initialized, maxEntries, templateFiles, matchOut, render, call>>

\* an HTTP request arrives at the express application
Http(id, r) ==
    /\ initialized
    /\ ~crashed
    /\ run[id].pc = "idle"
    /\ Leave(id, serve(Ctx(run[id], entries, templateCache), r))

(***************************************************************************)
(* The route table: sorting.  Routes differ in priority and fallback.      *)
(***************************************************************************)
SortShapes ==
    {[BaseRoute("-") EXCEPT !.priority = p, !.fallback = f, !.multi = TRUE] :
        p \in {Absent, Some(1), Some(5)}, f \in BOOLEAN}

Events == {Buy, BuyX}

NextTable ==
    \/ Initialize
    \/ \E eventName \in Events, method \in Methods : FindMatches(eventName, method)

InitSort ==
    /\ Constructed
    /\ cfgRoutes \in {Named(t) : t \in {x \in SeqUpTo(SortShapes, MaxRoutes) : ValidConfig(x)}}
    /\ debugMaxEntries = DefaultMaxEntries
    /\ debugLogging = FALSE
    /\ templateFiles = {}

SpecSort == InitSort /\ [][NextTable]_vars

(***************************************************************************)
(* The route table: matching.  Routes differ in event_match, methods and   *)
(* multi.                                                                  *)
(***************************************************************************)
MatchShapes ==
    {[BaseRoute("-") EXCEPT !.event_match = e, !.methods = m, !.multi = x] :
        e \in {Star, Buy, BuyDotStar}, m \in {Absent, Some({"POST"})}, x \in BOOLEAN}

InitMatch ==
    /\ Constructed
    /\ cfgRoutes \in {Named(t) : t \in SeqUpTo(MatchShapes, MaxRoutes)}
    /\ debugMaxEntries = DefaultMaxEntries
    /\ debugLogging = FALSE
    /\ templateFiles = {}

SpecMatch == InitMatch /\ [][NextTable]_vars

(***************************************************************************)
(* The dispatcher: one request against a table whose routes differ in      *)
(* multi and in the key they ask for, with or without a fallback route.    *)
(***************************************************************************)
TemplatePath == "t.json"

DispatchShapes(tpl, meth) ==
    {[BaseRoute("-") EXCEPT !.multi = x, !.auth = KeyAuth(k), !.template = tpl,
                            !.methods = meth] :
        x \in BOOLEAN, k \in {"k1", "k2"}}

FallbackShapes(tpl, meth) ==
    {[BaseRoute("-") EXCEPT !.fallback = TRUE, !.auth = KeyAuth(k), !.template = tpl,
                            !.methods = meth] :
        k \in {"k1", "k2"}}

DispatchTables ==
    UNION {{Named(t \o f) : t \in SeqUpTo(DispatchShapes(tpl, meth), MaxRoutes),
                            f \in SeqUpTo(FallbackShapes(tpl, meth), 1)} :
           tpl \in {None, TemplatePath},
           meth \in {Some({"POST"}), Some({"POST", "GET"})}}

usesTemplate(rs) == \E i \in 1..Len(rs) : truthy(rs[i].template)

DispatchRequests ==
    {Request("POST", Payload(kind, IF kind = "ok" THEN name ELSE <<>>, poison),
             EmptyQuery, key) :
        kind \in {"ok", "emptyEvents"}, name \in {Buy, View}, poison \in BOOLEAN,
        key \in {None, "k1"}}
    \cup
    {Request("GET", EmptyBody, [en |-> en, enArray |-> FALSE, poison |-> poison], "k1") :
        en \in {Absent, Some(Buy)}, poison \in BOOLEAN}

DispatchOutcomes == {Responded(200), Responded(503), TimedOut}

Next ==
    \/ Initialize
    \/ \E r \in DispatchRequests : Receive(1, r)
    \/ \E outcome \in DispatchOutcomes : Complete(1, outcome)

Init ==
    /\ Constructed
    /\ cfgRoutes \in DispatchTables
    /\ debugMaxEntries \in {0, DefaultMaxEntries}
    /\ debugLogging = FALSE
    /\ templateFiles \in IF usesTemplate(cfgRoutes) THEN {{}, {TemplatePath}}
                         ELSE {{TemplatePath}}

Spec == Init /\ [][Next]_vars

(***************************************************************************)
(* Forwarding: one request that every route of the table matches and       *)
(* authenticates, and every way the target can answer.                     *)
(***************************************************************************)
ForwardTables ==
    UNION {{Named(t) : t \in SeqUpTo(DispatchShapes(tpl, Some({"POST"})), 2) \ {<<>>}} :
           tpl \in {None, TemplatePath}}

ForwardRequests ==
    {Request("POST", Payload("ok", Buy, poison), EmptyQuery, key) :
        poison \in BOOLEAN, key \in {"k1", "k2"}}

ForwardOutcomes ==
    {Responded(200), Responded(404), Responded(499), Responded(500), Responded(503),
     TimedOut, NoResponse}

NextForward ==
    \/ Initialize
    \/ \E r \in ForwardRequests : Receive(1, r)
    \/ \E outcome \in ForwardOutcomes : Complete(1, outcome)

InitForward ==
    /\ Constructed
    /\ cfgRoutes \in ForwardTables
    /\ debugMaxEntries \in {0, DefaultMaxEntries}
    /\ debugLogging = FALSE
    /\ templateFiles = {TemplatePath}

SpecForward == InitForward /\ [][NextForward]_vars

(***************************************************************************)
(* Template files: the server starts with the files its routes refer to    *)
(* in place, as config.load has found them; then files are changed or      *)
(* deleted, and two requests arrive one after the other.                   *)
(***************************************************************************)
OtherTemplatePath == "u.json"

TemplateTables ==
    {Named(<<[BaseRoute("-") EXCEPT !.multi = TRUE, !.auth = KeyAuth("k1"),
                                    !.template = TemplatePath,
                                    !.methods = Some({"POST"})],
              [BaseRoute("-") EXCEPT !.multi = m, !.auth = KeyAuth("k1"),
                                    !.template = tpl, !.methods = Some({"POST"})]>>) :
        m \in BOOLEAN, tpl \in {None, TemplatePath, OtherTemplatePath}}

TemplateRequest == Request("POST", Payload("ok", Buy, FALSE), EmptyQuery, "k1")

NextTemplateFiles ==
    \/ Initialize
    \/ \E path \in {TemplatePath, OtherTemplatePath} : EditTemplate(path)
    \/ \E path \in {TemplatePath, OtherTemplatePath} : DeleteTemplate(path)
    \/ \E id \in ReqIds : Receive(id, TemplateRequest)
    \/ \E id \in ReqIds, outcome \in DispatchOutcomes : Complete(id, outcome)

InitTemplateFiles ==
    /\ Constructed
    /\ cfgRoutes \in TemplateTables
    /\ debugMaxEntries = DefaultMaxEntries
    /\ debugLogging = FALSE
    /\ templateFiles = {TemplatePath, OtherTemplatePath}

SpecTemplateFiles == InitTemplateFiles /\ [][NextTemplateFiles]_vars

(***************************************************************************)
(* The method gate: one request against a table whose routes differ in     *)
(* their methods field, which a route may not have.                        *)
(***************************************************************************)
MethodShapes ==
    {[BaseRoute("-") EXCEPT !.methods = m, !.multi = x] :
        m \in {Absent, Some({"POST"}), Some({"GET"})}, x \in BOOLEAN}

MethodFallbackShapes ==
    {[BaseRoute("-") EXCEPT !.methods = m, !.fallback = TRUE] :
        m \in {Absent, Some({"POST"}), Some({"GET"})}}

MethodTables ==
    {Named(t \o f) : t \in SeqUpTo(MethodShapes, MaxRoutes),
                     f \in SeqUpTo(MethodFallbackShapes, 1)}

MethodRequests ==
    {Request("POST", Payload(kind, IF kind = "ok" THEN name ELSE <<>>, FALSE),
             EmptyQuery, "k1") :
        kind \in {"ok", "emptyEvents"}, name \in {Buy, View}}
    \cup
    {Request("GET", EmptyBody, [en |-> Some(Buy), enArray |-> a, poison |-> FALSE], "k1") :
        a \in BOOLEAN}

NextMethods ==
    \/ Initialize
    \/ \E r \in MethodRequests : Receive(1, r)
    \/ \E outcome \in {Responded(200), TimedOut} : Complete(1, outcome)

InitMethods ==
    /\ Constructed
    /\ cfgRoutes \in MethodTables
    /\ debugMaxEntries = DefaultMaxEntries
    /\ debugLogging = FALSE
    /\ templateFiles = {}

SpecMethods == InitMethods /\ [][NextMethods]_vars

(***************************************************************************)
(* The HTTP surface: one request of any method and path against a table    *)
(* whose routes differ in multi and in having a template.                  *)
(***************************************************************************)
ServerShapes ==
    {[BaseRoute("-") EXCEPT !.multi = x, !.template = tpl,
                            !.methods = Some({"POST", "GET"})] :
        x \in BOOLEAN, tpl \in {None, JsNull, EmptyString, TemplatePath}}

ServerTables == {Named(t) : t \in SeqUpTo(ServerShapes, MaxRoutes)}

ServerRequests ==
    {[Request("POST", Payload(kind, IF kind = "ok" THEN name ELSE <<>>, poison),
              EmptyQuery, key) EXCEPT !.path = path] :
        kind \in {"ok", "emptyEvents"}, name \in {Buy, View}, poison \in BOOLEAN,
        key \in {None, "k1"}, path \in Paths}
    \cup
    {[Request("GET", EmptyBody, [en |-> Some(Buy), enArray |-> FALSE, poison |-> FALSE],
              key) EXCEPT !.path = path] :
        key \in {None, "k1"}, path \in Paths}

NextServer ==
    \/ Initialize
    \/ \E r \in ServerRequests : Http(1, r)
    \/ \E outcome \in {Responded(200), TimedOut} : Complete(1, outcome)

InitServer ==
    /\ Constructed
    /\ cfgRoutes \in ServerTables
    /\ debugMaxEntries = DefaultMaxEntries
    /\ debugLogging = FALSE
    /\ templateFiles \in {{}, {TemplatePath}}

SpecServer == InitServer /\ [][NextServer]_vars

(***************************************************************************)
(* matchesWildcard: one call on a pattern and a value.                     *)
(***************************************************************************)
MaxPattern == 3
MaxValue == 3

\* the strings over an alphabet of at most n characters
RECURSIVE StringsUpTo(_, _)
StringsUpTo(alphabet, n) ==
    IF n = 0 THEN {<<>>}
    ELSE LET shorter == StringsUpTo(alphabet, n - 1)
         IN  shorter \cup {Append(str, c) : str \in shorter, c \in alphabet}

Patterns == StringsUpTo({"a", ".", "?", "*"}, MaxPattern)
Values == StringsUpTo({"a", ".", "?", "\n"}, MaxValue)

\* everything but the call
Idle ==
    /\ cfgRoutes = <<>>
    /\ debugMaxEntries = DefaultMaxEntries
    /\ debugLogging = FALSE
    /\ routes = <<>>
    /\ fallbackRoute = Absent
    /\ initialized = FALSE
    /\ maxEntries = DefaultMaxEntries
    /\ entries = <<>>
    /\ templateFiles = {}
    /\ templateCache = {}
    /\ templateEdits = NoEdits
    /\ matchOut = Absent
    /\ run = [id \in ReqIds |-> IdleRun]
    /\ crashed = FALSE
    /\ render = NoRender

InitWildcard ==
    /\ Idle
    /\ call \in {Call("matchesWildcard", <<pattern, value>>) :
                    pattern \in Patterns, value \in Values}

NextWildcard == MatchWildcard

SpecWildcard == InitWildcard /\ [][NextWildcard]_vars

(***************************************************************************)
(* authenticate: one call on a request and an authentication               *)
(* configuration.                                                          *)
(***************************************************************************)
Keys == {"k1", "k2"}
Origins == {"https://a.example", "https://b.example"}
Ips == {"10.0.0.1", "10.0.0.2"}

XffHeaders ==
    {<<>>, <<XffEntry(EmptyString, FALSE)>>, <<XffEntry("10.0.0.1", FALSE)>>,
     <<XffEntry("10.0.0.2", TRUE)>>,
     <<XffEntry("10.0.0.2", FALSE), XffEntry("10.0.0.1", TRUE)>>,
     <<XffEntry("10.0.0.3", FALSE)>>}

AuthRequests ==
    {[Request("POST", EmptyBody, EmptyQuery, apikey)
        EXCEPT !.origin = origin, !.xff = xff, !.remote = remote] :
        apikey \in Keys \cup {None, EmptyString},
        origin \in Origins \cup {None, EmptyString},
        xff \in XffHeaders,
        remote \in Ips \cup {None}}

\* no auth configuration, or one without a type
NoAuthConfig == [type |-> None, key |-> None, origins |-> {}, allowed_ips |-> {}]

AuthConfigs ==
    {NoAuthConfig, [NoAuthConfig EXCEPT !.type = "basic", !.key = "k1"]}
    \cup {KeyAuth(k) : k \in {"k1", EmptyString}}
    \cup {[NoAuthConfig EXCEPT !.type = "whitelist", !.origins = o] : o \in SUBSET Origins}
    \cup {[NoAuthConfig EXCEPT !.type = "ip_whitelist", !.allowed_ips = a] : a \in SUBSET Ips}

InitAuth ==
    /\ Idle
    /\ call \in {Call("authenticate", <<r, a>>) : r \in AuthRequests, a \in AuthConfigs}

NextAuth == Authenticate

SpecAuth == InitAuth /\ [][NextAuth]_vars

(***************************************************************************)
(* The template engine: one call on a template and a payload.              *)
(***************************************************************************)
TokenPaths ==
    {<<"a", ".", "b">>, <<"a", ".", "0">>, <<"a", ".", "1">>, <<"a", ".", "b", ".", "c">>, <<"x">>, <<"a", ".", "t", "o", "S", "t", "r", "i", "n", "g">>, <<"m", "i", "s", "s", "i", "n", "g", ".", "p", "a", "t", "h">>}

TokenFallbacks == {<<>>, <<"'", "U", "S", "D", "'">>, <<"x">>, <<"n", "u", "l", "l">>, <<"0">>}

Tokens == {Tok(p, f) : p \in TokenPaths, f \in TokenFallbacks}

Plain == <<Lit(<<"p", "l", "a", "i", "n">>)>>

TemplateLeaves ==
    {<<t>> : t \in Tokens}
    \cup {<<Lit(<<"i", "d", "-">>), Tok(p, <<>>)>> : p \in TokenPaths}
    \cup {<<Tok(<<"a", ".", "b">>, <<>>), Lit(<<"-">>), Tok(<<"x">>, <<>>)>>, Plain, <<Lit(MissingValue)>>}

LastLeaves == {<<Tok(<<"a", ".", "b">>, <<>>)>>, <<Tok(<<"x">>, <<>>)>>, Plain}

\* the values of the payload's leaves
PayloadScalars ==
    {JNull, JNum(FALSE, 0, <<>>), JBool(FALSE), JStr(<<>>), JStr(<<"v">>), JStr(MissingValue)}

\* the payloads: a is absent, a string, an object with the key b or an
\* array of one element; x is absent or 'EUR'
RenderPayloads ==
    LET as == {<<>>, <<JStr(<<"s">>)>>}
              \cup {<<JObj(<<<<"b">>>>, <<v>>)>> : v \in PayloadScalars}
              \cup {<<JArr(<<v>>)>> : v \in PayloadScalars}
        xs == {<<>>, <<JStr(<<"E", "U", "R">>)>>}
    IN  {JObj((IF a = <<>> THEN <<>> ELSE <<<<"a">>>>) \o (IF x = <<>> THEN <<>> ELSE <<<<"x">>>>),
              a \o x) : a \in as, x \in xs}

RenderCalls ==
    {RenderCall("object", <<l>>, p) : l \in TemplateLeaves, p \in RenderPayloads}
    \cup {RenderCall("array", <<l, Plain, m>>, p) :
             l \in TemplateLeaves, m \in LastLeaves, p \in RenderPayloads}

NextTemplate ==
    \/ Render
    \/ \E part \in Tokens : ResolveToken(part)
    \/ \E path \in TokenPaths : ResolvePath(path)

InitTemplate ==
    /\ cfgRoutes = <<>>
    /\ debugMaxEntries = DefaultMaxEntries
    /\ debugLogging = FALSE
    /\ routes = <<>>
    /\ fallbackRoute = Absent
    /\ initialized = FALSE
    /\ maxEntries = DefaultMaxEntries
    /\ entries = <<>>
    /\ templateFiles = {}
    /\ templateCache = {}
    /\ templateEdits = NoEdits
    /\ matchOut = Absent
    /\ run = [id \in ReqIds |-> IdleRun]
    /\ crashed = FALSE
    /\ render \in RenderCalls
    /\ call = NoCall

SpecTemplate == InitTemplate /\ [][NextTemplate]_vars

(***************************************************************************)
(* Properties.  They speak of request 1, the request of Spec.              *)
(***************************************************************************)
R == run[1]
T == run[1].trace

Handled == R.pc # "idle"
Finished == R.pc \in {"responded", "rejected"}

Auths == SelectSeq(T, LAMBDA x : x.e = "auth")
Posts == SelectSeq(T, LAMBDA x : x.e = "post")
RouteLogs == SelectSeq(T, LAMBDA x : x.e = "dlog" /\ x.route # "-")
At(e, route) == {n \in 1..Len(T) : T[n].e = e /\ T[n].route = route}
SuccessCount == Cardinality({i \in 1..Len(R.results) : R.results[i].success})

\* the payload processRequest works on
PayloadOf(r) == IF r.method = "GET" THEN normalizeGetPayload(r.query) ELSE r.body

\* the request has passed the method gate and the validation
ReachedMatching ==
    /\ Handled
    /\ \E i \in 1..Len(routes \o fallbackRoute) :
          LET rt == (routes \o fallbackRoute)[i]
          IN  rt.methods # Absent /\ R.req.method \in rt.methods[1]
    /\ PayloadOf(R.req).kind = "ok"

\* the routes of the table that qualify for the request
QualifyingIndexes(eventName, method) ==
    {i \in 1..Len(routes) :
        /\ matchesWildcard(routes[i].event_match, eventName)
        /\ routes[i].methods # Absent
        /\ method \in routes[i].methods[1]}

(* C1: findMatches returns, in table order, exactly the qualifying routes  *)
(* up to and including the first qualifying route that is not multi; all   *)
(* qualifying routes if there is none.                                     *)
C1_MatchUpToFirstNonMulti ==
    matchOut # Absent =>
        LET m == matchOut[1]
            Q == QualifyingIndexes(m.eventName, m.method)
            K == {i \in Q : \A j \in Q : j < i => routes[j].multi}
            nth(n) == CHOOSE i \in K : Cardinality({j \in K : j < i}) = n - 1
        IN  /\ Len(m.matching) = Cardinality(K)
            /\ \A n \in 1..Len(m.matching) : m.matching[n] = routes[nth(n)]

\* three qualifying routes, multi, not multi, multi: the first two are returned
C1_Witness ==
    /\ matchOut # Absent
    /\ Len(routes) = 3
    /\ QualifyingIndexes(matchOut[1].eventName, matchOut[1].method) = {1, 2, 3}
    /\ routes[1].multi /\ ~routes[2].multi /\ routes[3].multi
    /\ matchOut[1].matching = <<routes[1], routes[2]>>

declIndex(route) == CHOOSE i \in 1..Len(cfgRoutes) : cfgRoutes[i].name = route.name

(* C2: after Router.initialize the regular routes are a permutation of the *)
(* routes of the file that are not the fallback, ascending by priority,    *)
(* routes without priority last, equal priorities in file order.           *)
C2_SortedStablePermutation ==
    initialized =>
        /\ Len(routes) = Cardinality({i \in 1..Len(cfgRoutes) : ~cfgRoutes[i].fallback})
        /\ \A i \in 1..Len(cfgRoutes) :
              ~cfgRoutes[i].fallback => \E k \in 1..Len(routes) : routes[k] = cfgRoutes[i]
        /\ \A k \in 1..Len(routes) :
              \E i \in 1..Len(cfgRoutes) : ~cfgRoutes[i].fallback /\ routes[k] = cfgRoutes[i]
        /\ \A k, l \in 1..Len(routes) :
              k < l =>
                /\ routes[k].priority = Absent => routes[l].priority = Absent
                /\ (routes[k].priority # Absent /\ routes[l].priority # Absent)
                      => routes[k].priority[1] <= routes[l].priority[1]
                /\ routes[k].priority = routes[l].priority
                      => declIndex(routes[k]) < declIndex(routes[l])

\* [{priority 5, A}, {B}, {priority 5, C}] has become [A, C, B]
C2_Witness ==
    /\ initialized
    /\ Len(cfgRoutes) = 3
    /\ cfgRoutes[1].priority = Some(5) /\ cfgRoutes[2].priority = Absent
    /\ cfgRoutes[3].priority = Some(5)
    /\ Len(routes) = 3
    /\ routes[1].name = "A" /\ routes[2].name = "C" /\ routes[3].name = "B"

(* C3: no outbound POST is issued for a route unless authenticate has      *)
(* succeeded for the request and that route; a route whose authentication  *)
(* fails has a failed execution result and no outbound call.               *)
C3_AuthGatesForward ==
    /\ \A n \in 1..Len(T) :
          T[n].e = "post" =>
             \E m \in 1..(n - 1) :
                T[m].e = "auth" /\ T[m].route = T[n].route /\ T[m].info = "ok"
    /\ \A n \in 1..Len(T) :
          (T[n].e = "auth" /\ T[n].info = "fail") =>
             /\ At("post", T[n].route) = {}
             /\ \E i \in 1..Len(R.results) :
                   R.results[i].route = T[n].route /\ ~R.results[i].success

(* C4: when the request is over, the result list has exactly one result    *)
(* per matched route, in match order, whatever the earlier routes did.     *)
C4_OneResultPerMatchedRoute ==
    (Finished /\ R.mode = "routes") =>
        /\ Len(R.results) = Len(R.matching)
        /\ \A i \in 1..Len(R.results) : R.results[i].route = R.matching[i].name

C8_NoRetry ==
    /\ \A n, m \in 1..Len(T) :
          (T[n].e = "post" /\ T[m].e = "post" /\ T[n].route = T[m].route) => n = m
    /\ \A n \in 1..Len(T) :
          (T[n].e = "answer" /\ T[n].info = "fail") =>
             /\ \A m \in (n + 1)..Len(T) : ~(T[m].e = "post" /\ T[m].route = T[n].route)
             /\ \A i \in 1..Len(R.results) :
                   R.results[i].route = T[n].route => ~R.results[i].success
             /\ (R.inflight = Absent \/ R.inflight[1].name # T[n].route)

\* a forward has failed and the request has been answered
C8_Witness ==
    /\ R.resp # Absent
    /\ \E n \in 1..Len(T) : T[n].e = "answer" /\ T[n].info = "fail"
    /\ \E n \in 1..Len(T) : T[n].e = "result" /\ T[n].info = "fail"

(* C9: a valid event that no route matches, with no fallback route         *)
(* configured, is answered 200 {status: unmatched, event: its name}, and   *)
(* no outbound POST is issued.                                             *)
C9_UnmatchedIs200 ==
    (/\ ReachedMatching
     /\ fallbackRoute = Absent
     /\ QualifyingIndexes(PayloadOf(R.req).name, R.req.method) = {})
    => /\ R.resp # Absent
       /\ R.resp[1].code = 200
       /\ R.resp[1].status = "unmatched"
       /\ R.resp[1].event = Some(PayloadOf(R.req).name)
       /\ Len(Posts) = 0

AllRoutes == routes \o fallbackRoute

\* some route, regular or fallback, lists the method of the request
MethodListed ==
    \E i \in 1..Len(AllRoutes) :
       AllRoutes[i].methods # Absent /\ R.req.method \in AllRoutes[i].methods[1]

DeclaredMethods ==
    UNION {AllRoutes[i].methods[1] : i \in {j \in 1..Len(AllRoutes) : AllRoutes[j].methods # Absent}}

(* C11: a request whose method no route, regular or fallback, lists in its *)
(* methods is answered 405 with an Allow header that is the union of the   *)
(* declared methods, before validation, matching, authentication and any   *)
(* outbound call; a request whose method some route lists is not answered  *)
(* 405.                                                                    *)
C11_MethodGate ==
    Handled =>
        /\ ~MethodListed =>
              /\ R.resp # Absent
              /\ R.resp[1].code = 405
              /\ R.resp[1].allow = Some(DeclaredMethods)
              /\ R.mode = None
              /\ Len(Auths) = 0 /\ Len(Posts) = 0
              /\ \A n \in 1..Len(T) : T[n].info # "validation_error"
        /\ MethodListed => (R.resp = Absent \/ R.resp[1].code # 405)

\* route i accepts POST when a route without methods accepts POST
AcceptsPostByDefault(i) ==
    /\ matchesWildcard(routes[i].event_match, PayloadOf(R.req).name)
    /\ (routes[i].methods = Absent \/ "POST" \in routes[i].methods[1])

(* C12: a route without a methods field accepts POST: a valid POST event   *)
(* that its event_match matches, and that no earlier accepting route that  *)
(* is not multi takes, is matched by the route and is not answered 405.    *)
C12_MethodsDefaultPost ==
    (Handled /\ R.req.method = "POST" /\ PayloadOf(R.req).kind = "ok") =>
        \A i \in 1..Len(routes) :
           (/\ routes[i].methods = Absent
            /\ AcceptsPostByDefault(i)
            /\ \A j \in 1..(i - 1) : AcceptsPostByDefault(j) => routes[j].multi)
           => /\ \E k \in 1..Len(R.matching) : R.matching[k] = routes[i]
              /\ (R.resp = Absent \/ R.resp[1].code # 405)

(* C13: a request that has passed the method gate and whose normalized     *)
(* payload is not an object with a non-empty events array whose first      *)
(* element has a string name is answered 400, and nothing is matched,      *)
(* authenticated or forwarded for it; a payload of that shape is never     *)
(* answered 400.                                                           *)
C13_InvalidPayloadIs400 ==
    (Handled /\ MethodListed) =>
        /\ PayloadOf(R.req).kind # "ok" =>
              /\ R.resp # Absent
              /\ R.resp[1].code = 400
              /\ R.mode = None /\ R.matching = <<>>
              /\ Len(Auths) = 0 /\ Len(Posts) = 0
        /\ PayloadOf(R.req).kind = "ok" => (R.resp = Absent \/ R.resp[1].code # 400)

(* C14: a GET request to /g/collect is an event: it reaches the            *)
(* dispatcher, its query is normalized into the payload, it is matched     *)
(* against the routes that allow GET, and it is not answered 404.          *)
C14_GetCollectIsIngested ==
    (Handled /\ R.req.method = "GET" /\ R.req.path = "/g/collect") =>
        /\ (R.resp = Absent \/ R.resp[1].code # 404)
        /\ R.payload = normalizeGetPayload(R.req.query)
        /\ R.matching = findMatchingRoutes(routes, normalizeGetPayload(R.req.query).name,
                                           "GET")

\* the request is a dry run
IsDryRun == Handled /\ R.req.method = "POST" /\ R.req.path = "/dry-run"

DryRunMatching == findMatchingRoutes(routes, R.req.body.name, R.req.method)

(* C15: a dry run never calls the outbound transport; for a valid payload  *)
(* it returns one entry per matched route, in match order, each with the   *)
(* target URL and either the authentication error or the transformed       *)
(* payload.                                                                *)
C15_DryRunNeverForwards ==
    IsDryRun =>
        /\ Len(Posts) = 0
        /\ R.inflight = Absent
        /\ R.req.body.kind = "ok" =>
              /\ R.resp # Absent
              /\ R.resp[1].code = 200
              /\ R.resp[1].matched_routes # Absent
              /\ LET out == R.resp[1].matched_routes[1]
                 IN  /\ Len(out) = Len(DryRunMatching)
                     /\ \A i \in 1..Len(out) :
                           /\ out[i].route = DryRunMatching[i].name
                           /\ out[i].target_url = DryRunMatching[i].target_url
                           /\ (out[i].auth_error # None)
                                 <=> ~authenticate(R.req, DryRunMatching[i].auth).success
                           /\ (out[i].transformed_payload # None)
                                 <=> authenticate(R.req, DryRunMatching[i].auth).success

\* the transform of the route fails for the request
TransformFails(route) ==
    /\ authenticate(R.req, route.auth).success
    /\ IF truthy(route.template) THEN route.template \notin templateFiles
       ELSE deepCloneThrows(R.req.body)

(* C16: in a dry run over several matched routes, a transform failure on   *)
(* one route is local to it: every other matched route is still evaluated  *)
(* and reported in the response.                                           *)
C16_DryRunFailureIsLocal ==
    (/\ IsDryRun
     /\ R.req.body.kind = "ok"
     /\ Len(DryRunMatching) >= 2
     /\ \E i \in 1..Len(DryRunMatching) : TransformFails(DryRunMatching[i]))
    => /\ R.resp # Absent
       /\ R.resp[1].matched_routes # Absent
       /\ \A j \in 1..Len(DryRunMatching) :
             ~TransformFails(DryRunMatching[j]) =>
                /\ At("auth", DryRunMatching[j].name) # {}
                /\ \E k \in 1..Len(R.resp[1].matched_routes[1]) :
                      R.resp[1].matched_routes[1][k].route = DryRunMatching[j].name

RouteNamed(n) == CHOOSE rt \in {AllRoutes[i] : i \in 1..Len(AllRoutes)} : rt.name = n

(* C17: passthrough is selected only when the route has no template        *)
(* field: a route whose template is null or the empty string is not        *)
(* forwarded to in passthrough mode, and a route without template is sent  *)
(* the inbound payload.                                                    *)
C17_PassthroughOnlyWhenAbsent ==
    \A n \in 1..Len(T) :
       T[n].e = "post" =>
          /\ T[n].info = "passthrough" => RouteNamed(T[n].route).template = None
          /\ RouteNamed(T[n].route).template = None => T[n].info = "passthrough"

(***************************************************************************)
(* Properties of the template engine.  They speak of the call of           *)
(* SpecTemplate.                                                           *)
(***************************************************************************)
RenderContext == spreadMeta(render.payload, Meta)

\* what the token of a part resolves to in the call's context
tokenValue(part) == resolveTokenExpression(expressionOf(part), RenderContext)

hasToken(leaf) == \E i \in 1..Len(leaf) : leaf[i].tok

\* some token of the leaf resolves to missing
leafMissing(leaf) ==
    \E i \in 1..Len(leaf) : leaf[i].tok /\ tokenValue(leaf[i]) = MissingValue

\* the leaf with every token replaced by what it resolves to
RECURSIVE leafText(_)
leafText(leaf) ==
    IF leaf = <<>> THEN <<>>
    ELSE (IF Head(leaf).tok THEN tokenValue(Head(leaf)) ELSE Head(leaf).text)
         \o leafText(Tail(leaf))

\* the indexes of the leaves that are not missing, in increasing order
RECURSIVE keptFrom(_, _)
keptFrom(leaves, i) ==
    IF i > Len(leaves) THEN <<>>
    ELSE (IF leafMissing(leaves[i]) THEN <<>> ELSE <<i>>) \o keptFrom(leaves, i + 1)

Rendered == render.op = "processTemplate"

\* C18: rendering drops what is missing.  A string leaf in which any token
\* resolves to missing is omitted from its parent: the rendered object has
\* exactly the keys of the other leaves and the rendered array exactly the
\* other elements, re-indexed in their original order; no rendered leaf is
\* null or holds the missing marker in place of a token; a leaf without any
\* token is returned verbatim.
C18_MissingLeafIsOmitted ==
    Rendered =>
        LET leaves == render.leaves
            kept == keptFrom(leaves, 1)
            text(j) == IF hasToken(leaves[kept[j]]) THEN leafText(leaves[kept[j]])
                       ELSE leafString(leaves[kept[j]])
            values == [j \in 1..Len(kept) |-> JStr(text(j))]
        IN  /\ render.out =
                  IF render.shape = "object"
                  THEN JObj([j \in 1..Len(kept) |-> KeyNames[kept[j]]], values)
                  ELSE JArr(values)
            /\ \A j \in 1..Len(render.out.items) :
                  /\ render.out.items[j].t = "string"
                  /\ hasToken(leaves[kept[j]])
                        => ~includesString(render.out.items[j].s, MissingValue)

\* {"k": "{{x}}"} rendered against {} gives {}
C18_Witness ==
    /\ Rendered
    /\ render.shape = "object"
    /\ render.leaves = <<<<Tok(<<"x">>, <<>>)>>>>
    /\ render.payload = JObj(<<>>, <<>>)
    /\ render.out = JObj(<<>>, <<>>)

\* an array whose first element is dropped and whose others move up
C18_WitnessArray ==
    /\ Rendered
    /\ render.shape = "array"
    /\ leafMissing(render.leaves[1])
    /\ ~leafMissing(render.leaves[3])
    /\ Len(render.out.items) = 2
    /\ render.out.items[1] = JStr(<<"p", "l", "a", "i", "n">>)

\* the value at a path by the keys an object has itself and the indexes an
\* array has: <<v>> if every step exists, <<>> if the path is NOT_FOUND
RECURSIVE ownValue(_, _)
ownValue(parts, current) ==
    IF parts = <<>> THEN <<current>>
    ELSE IF current.t = "object" /\ \E i \in 1..Len(current.keys) : current.keys[i] = Head(parts)
    THEN ownValue(Tail(parts),
                  current.items[CHOOSE i \in 1..Len(current.keys) :
                                    current.keys[i] = Head(parts)])
    ELSE IF current.t = "array" /\ allDigits(Head(parts))
            /\ parseDigits(Head(parts), 0) < Len(current.items)
    THEN ownValue(Tail(parts), current.items[parseDigits(Head(parts), 0) + 1])
    ELSE <<>>

pathValue(path) == ownValue(split(path, ".", <<>>), RenderContext)

\* the value of a fallback text: a literal, or else a path
fallbackOf(text) ==
    IF isQuote(Head(text)) /\ text[Len(text)] = Head(text)
    THEN <<JStr(SubSeq(text, 2, Len(text) - 1))>>
    ELSE IF text = <<"n", "u", "l", "l">> THEN <<JNull>>
    ELSE IF isNumberLiteral(text) THEN <<parseFloat(text)>>
    ELSE pathValue(text)

Resolved == render.op = "resolveTokenExpression"

\* the call renders the template {"k": "{{path || fallback}}"}
RendersOneToken ==
    /\ Rendered
    /\ render.shape = "object"
    /\ Len(render.leaves) = 1
    /\ Len(render.leaves[1]) = 1
    /\ render.leaves[1][1].tok

\* C19: token resolution with a fallback.  If the path resolves to a present
\* value, the falsy 0, false, null and "" included, the token yields that
\* value stringified (and so not the fallback), also as the rendered leaf;
\* the token is missing only when both the path and the fallback are
\* missing; {{missing.path || 'USD'}} yields "USD".
C19_FallbackOnlyWhenNotFound ==
    /\ (Resolved /\ render.part.fallback # <<>>) =>
          LET main == pathValue(render.part.path)
              fallback == fallbackOf(render.part.fallback)
          IN  /\ main # <<>> => render.out = JStr(String(main[1]))
              /\ render.out = JStr(MissingValue) => main = <<>> /\ fallback = <<>>
              /\ (main = <<>> /\ fallback # <<>>) =>
                    (render.part.path = <<"m", "i", "s", "s", "i", "n", "g", ".", "p", "a", "t", "h">> /\ render.part.fallback = <<"'", "U", "S", "D", "'">>
                        => render.out = JStr(<<"U", "S", "D">>))
    /\ (RendersOneToken /\ render.leaves[1][1].fallback # <<>>) =>
          LET main == pathValue(render.leaves[1][1].path)
          IN  main # <<>> => render.out = JObj(<<KeyNames[1]>>, <<JStr(String(main[1]))>>)

PathResolved == render.op = "getValueByPath"

\* C20: the path resolver tells NOT_FOUND from a present null, false, 0 or
\* "".  A path whose every step exists yields the value there, null included
\* (a.b on {a: {b: null}} yields null); a path through a scalar, through a key
\* the object does not contain or past the end of an array yields NOT_FOUND;
\* the leaf "{{a.b}}" alone on {a: {b: null}} renders the string "null" with its
\* key kept; every rendered leaf is a string.
C20_NotFoundIsNotNull ==
    /\ PathResolved =>
          LET v == pathValue(render.part.path)
          IN  render.out = IF v = <<>> THEN Undefined ELSE v[1]
    /\ (RendersOneToken /\ render.leaves[1][1] = Tok(<<"a", ".", "b">>, <<>>)
           /\ pathValue(<<"a", ".", "b">>) = <<JNull>>) =>
          render.out = JObj(<<KeyNames[1]>>, <<JStr(<<"n", "u", "l", "l">>)>>)
    /\ Rendered => \A j \in 1..Len(render.out.items) : render.out.items[j].t = "string"

(***************************************************************************)
(* Properties of matchesWildcard.  They speak of the call of SpecWildcard. *)
(***************************************************************************)
Matched == call.fn = "matchesWildcard" /\ call.done

\* C21: for a pattern without '*' the answer is the equality of pattern and
\* value, and for the pattern "*" it is true for every value.
C21_ExactUnlessWildcard ==
    Matched =>
        /\ ~includes(call.args[1], "*") => call.out = (call.args[1] = call.args[2])
        /\ call.args[1] = Star => call.out = TRUE

\* a pattern with a regex metacharacter and no '*', on a different value
C21_Witness ==
    /\ Matched
    /\ call.args[1] = <<"a", "?">>
    /\ call.args[2] = <<"a">>
    /\ call.out = FALSE

\* value[j..] is pattern[i..] with each '*' replaced by some string
RECURSIVE glob(_, _, _, _)
glob(pattern, i, value, j) ==
    IF i > Len(pattern) THEN j > Len(value)
    ELSE IF pattern[i] = "*"
    THEN \E k \in j..(Len(value) + 1) : glob(pattern, i + 1, value, k)
    ELSE /\ j <= Len(value)
         /\ value[j] = pattern[i]
         /\ glob(pattern, i + 1, value, j + 1)

\* C22: for a pattern with a '*' the answer is true exactly when the value
\* is the pattern with each '*' replaced by some, possibly empty, string and
\* every other character, regex metacharacters included, standing for
\* itself; "a.*" matches "a.a" and does not match "a".
C22_WildcardIsGlob ==
    (Matched /\ includes(call.args[1], "*")) =>
        /\ call.out = glob(call.args[1], 1, call.args[2], 1)
        /\ (call.args[1] = <<"a", ".", "*">> /\ call.args[2] = <<"a", ".", "a">>)
              => call.out = TRUE
        /\ (call.args[1] = <<"a", ".", "*">> /\ call.args[2] = <<"a">>) => call.out = FALSE

(***************************************************************************)
(* Properties of authenticate.  They speak of the call of SpecAuth.        *)
(***************************************************************************)
Authenticated == call.fn = "authenticate" /\ call.done

\* a header the request carries with a value
present(header) == header # None /\ header # EmptyString

\* the client IP: the first X-Forwarded-For entry if the header is present,
\* else the socket address
clientIp(r) ==
    IF r.xff # <<>> /\ (Len(r.xff) > 1 \/ r.xff[1].text # EmptyString \/ r.xff[1].spaces)
    THEN r.xff[1].text
    ELSE r.remote

\* C23: authenticate succeeds exactly when the strategy of the route is
\* satisfied: apikey iff the x-api-key header is present and equal to
\* auth.key, whitelist iff the Origin header is present and among
\* auth.origins, ip_whitelist iff the client IP is among auth.allowed_ips;
\* without a configuration or with an unknown type it fails; the answer is
\* always a result object, with an error message when it is a failure.
C23_AuthenticateIffStrategy ==
    Authenticated =>
        LET r == call.args[1]
            auth == call.args[2]
            out == call.out
        IN  /\ out.success \in BOOLEAN
            /\ ~out.success => out.error # None
            /\ auth.type = "apikey" =>
                  (out.success <=> present(r.apikey) /\ r.apikey = auth.key)
            /\ auth.type = "whitelist" =>
                  (out.success <=> present(r.origin) /\ r.origin \in auth.origins)
            /\ auth.type = "ip_whitelist" =>
                  (out.success <=> clientIp(r) \in auth.allowed_ips)
            /\ auth.type \notin {"apikey", "whitelist", "ip_whitelist"} => ~out.success

\* an allowed address in the second X-Forwarded-For entry and at the socket,
\* another one in the first entry
C23_Witness ==
    /\ Authenticated
    /\ call.args[2].type = "ip_whitelist"
    /\ call.args[2].allowed_ips = {"10.0.0.1"}
    /\ call.args[1].xff = <<XffEntry("10.0.0.2", FALSE), XffEntry("10.0.0.1", TRUE)>>
    /\ call.args[1].remote = "10.0.0.1"
    /\ ~call.out.success

(***************************************************************************)
(* Properties of the dispatcher, continued.  They speak of request 1.      *)
(***************************************************************************)
\* authentication has failed on the only matching route of the request
OnlyRouteFailedAuth ==
    /\ R.mode = "routes"
    /\ Len(R.matching) = 1
    /\ \E n \in 1..Len(T) :
          T[n].e = "auth" /\ T[n].route = R.matching[1].name /\ T[n].info = "fail"

\* C24: when authentication fails on the only matching route of a request,
\* nothing is forwarded, and once the request is over it has been answered
\* 500 (all routes failed), not 401 or 403.
C24_AuthFailureIs500 ==
    OnlyRouteFailedAuth =>
        /\ Len(Posts) = 0
        /\ Finished => (R.resp # Absent /\ R.resp[1].code = 500)

\* the error code the claim gives a failed forward
failureClass(outcome) ==
    IF outcome.kind = "response" THEN "HTTP_" \o ToString(outcome.status)
    ELSE IF outcome.kind = "timeout" THEN "ECONNABORTED"
    ELSE "NO_RESPONSE"

\* the step is the end of the forward of request 1, with the outcome; then
\* the route in flight has its result, a success exactly if the target has
\* answered with a status below 500, a failure has its class, and the
\* process is alive
ForwardCounts(outcome) ==
    LET httpResult == sendToTarget(outcome)
        below500 == outcome.kind = "response" /\ outcome.status < 500
        results == run'[1].results
    IN  /\ httpResult.success <=> below500
        /\ ~httpResult.success => httpResult.errorCode = failureClass(outcome)
        /\ ~crashed'
        /\ Len(results) > Len(run[1].results)
        /\ results[Len(run[1].results) + 1].route = run[1].inflight[1].name
        /\ results[Len(run[1].results) + 1].success <=> below500

\* C25: a forward counts as a route success exactly when the target answers
\* with a status below 500, 4xx included; a status of 500 or more, a timeout
\* or no response is a route failure of class HTTP_<status>, ECONNABORTED or
\* NO_RESPONSE, and it never terminates the process.
C25_ForwardSuccessBelow500 ==
    [][\A outcome \in ForwardOutcomes : Complete(1, outcome) => ForwardCounts(outcome)]_vars

(***************************************************************************)
(* Properties of the template files.  They speak of both requests of       *)
(* SpecTemplateFiles.                                                      *)
(***************************************************************************)
\* the routes of the table that have a template
TemplateRoutes == {cfgRoutes[i].name : i \in {j \in 1..Len(cfgRoutes) : truthy(cfgRoutes[j].template)}}

\* C26: templates are loaded once at startup.  After the server has
\* started, changing or deleting the template file of a route has no effect
\* on what is rendered for a later request: no template is taken into the
\* cache with a content written after startup, and every authenticated
\* request of a route with a template is rendered and forwarded.
C26_TemplatesLoadedAtStartup ==
    /\ templateEdits.cache = {}
    /\ \A id \in ReqIds :
          \A n \in 1..Len(run[id].trace) :
             LET ev == run[id].trace[n]
             IN  (ev.e = "auth" /\ ev.info = "ok" /\ ev.route \in TemplateRoutes) =>
                    \E m \in (n + 1)..Len(run[id].trace) :
                       run[id].trace[m].e = "post" /\ run[id].trace[m].route = ev.route

(***************************************************************************)
(* Startup: a routes.json of routes that are in order or have one defect,  *)
(* then requests.                                                          *)
(***************************************************************************)
Unset == [set |-> FALSE, integer |-> FALSE, n |-> 0]

\* a route of routes.json that is in order
RawRoute ==
    [name |-> "-", event_match |-> Buy, target_url |-> TargetUrl("-"),
     methods |-> Some({"POST"}), multi |-> TRUE, fallback |-> FALSE, priority |-> Unset,
     auth |-> Some(KeyAuth("k1")), template |-> None, envTokens |-> {}]

RawRoutes ==
    {RawRoute,
     [RawRoute EXCEPT !.fallback = TRUE],
     [RawRoute EXCEPT !.priority = [set |-> TRUE, integer |-> TRUE, n |-> 5]],
     [RawRoute EXCEPT !.template = TemplatePath],
     [RawRoute EXCEPT !.envTokens = {"API_KEY"}],
     [RawRoute EXCEPT !.event_match = <<>>],
     [RawRoute EXCEPT !.target_url = <<>>],
     [RawRoute EXCEPT !.auth = Absent],
     [RawRoute EXCEPT !.auth = Some(NoAuthConfig)],
     [RawRoute EXCEPT !.auth = Some([KeyAuth("k1") EXCEPT !.type = "basic"])],
     [RawRoute EXCEPT !.auth = Some([KeyAuth("k1") EXCEPT !.origins = Origins])],
     [RawRoute EXCEPT !.auth = Some(KeyAuth(None))],
     [RawRoute EXCEPT !.auth = Some([NoAuthConfig EXCEPT !.type = "whitelist"])],
     [RawRoute EXCEPT !.auth = Some([NoAuthConfig EXCEPT !.type = "ip_whitelist"])],
     [RawRoute EXCEPT !.priority = [set |-> TRUE, integer |-> FALSE, n |-> 0]],
     [RawRoute EXCEPT !.template = OtherTemplatePath],
     [RawRoute EXCEPT !.envTokens = {"API_KEY", "MISSING"}]}

MaxRawRoutes == 2

\* routes.json: the i-th route is named RouteNames[i]
RawTables ==
    {[i \in 1..Len(t) |-> [t[i] EXCEPT !.name = RouteNames[i]]] :
        t \in SeqUpTo(RawRoutes, MaxRawRoutes)}

Env(logMax, maxEntries0) ==
    [DEBUG_LOG_MAX |-> logMax, DEBUG_MAX_ENTRIES |-> maxEntries0, defined |-> {"API_KEY"}]

StartupRequests ==
    {Request("POST", Payload("ok", Buy, FALSE), EmptyQuery, key) : key \in {None, "k1"}}

NextStartup ==
    \/ LoadConfig
    \/ StartServer
    \/ \E r \in StartupRequests : Receive(1, r)
    \/ \E outcome \in DispatchOutcomes : Complete(1, outcome)

InitStartup ==
    /\ cfgRoutes = <<>>
    /\ debugMaxEntries = DefaultMaxEntries
    /\ debugLogging = FALSE
    /\ routes = <<>>
    /\ fallbackRoute = Absent
    /\ initialized = FALSE
    /\ maxEntries = DefaultMaxEntries
    /\ entries = <<>>
    /\ templateFiles = {TemplatePath}
    /\ templateCache = {}
    /\ templateEdits = NoEdits
    /\ matchOut = Absent
    /\ run = [id \in ReqIds |-> IdleRun]
    /\ crashed = FALSE
    /\ render = NoRender
    /\ \E t \in RawTables : call = Call("load", <<Env(Absent, Absent), t>>)

SpecStartup == InitStartup /\ [][NextStartup]_vars

(***************************************************************************)
(* Properties of the startup.  They speak of the load of SpecStartup.      *)
(***************************************************************************)
Loading == call.fn = "load"

\* the route has one of the defects that abort the startup
Defective(route, env) ==
    \/ route.event_match = <<>> \/ route.target_url = <<>> \/ route.auth = Absent
    \/ /\ route.auth # Absent
       /\ LET a == route.auth[1]
              strategies == {f \in {"key", "origins", "allowed_ips"} :
                                \/ f = "key" /\ a.key \notin {None, EmptyString}
                                \/ f = "origins" /\ a.origins # {}
                                \/ f = "allowed_ips" /\ a.allowed_ips # {}}
          IN  \/ a.type \notin {"apikey", "whitelist", "ip_whitelist"}
              \/ Cardinality(strategies) > 1
              \/ a.type = "apikey" /\ "key" \notin strategies
              \/ a.type = "whitelist" /\ "origins" \notin strategies
              \/ a.type = "ip_whitelist" /\ "allowed_ips" \notin strategies
    \/ route.priority.set /\ ~route.priority.integer
    \/ route.template \notin {None, JsNull, EmptyString} /\ route.template \notin templateFiles
    \/ \E token \in route.envTokens : token \notin env.defined

\* the configuration is one that must abort the startup
MustAbort ==
    LET env == call.args[1]
        rawRoutes == call.args[2]
    IN  \/ Cardinality({i \in 1..Len(rawRoutes) : rawRoutes[i].fallback}) > 1
        \/ \E i \in 1..Len(rawRoutes) : Defective(rawRoutes[i], env)

\* C27: startup is fail-fast.  The server is set up and listens only after
\* config.load has succeeded; with more than one fallback route, a route
\* with a conflicting, missing or unknown auth strategy, a missing required
\* field, a non-integer priority, a template that is missing or not valid
\* JSON, or an undefined environment variable, the load ends the process,
\* the server is never set up and no request is served.
C27_StartupFailFast ==
    Loading =>
        /\ initialized => (call.done /\ call.out = "loaded")
        /\ (\E id \in ReqIds : run[id].pc # "idle") => initialized
        /\ MustAbort =>
              /\ ~initialized
              /\ \A id \in ReqIds : run[id].pc = "idle"
              /\ call.done => (call.out = "exit" /\ crashed)

\* two fallback routes, in order otherwise: the load has ended the process
C27_Witness ==
    /\ Loading
    /\ call.done
    /\ Len(call.args[2]) = 2
    /\ call.args[2][1].fallback /\ call.args[2][2].fallback
    /\ \A i \in 1..2 : ~Defective(call.args[2][i], call.args[1])
    /\ call.out = "exit"
    /\ crashed
    /\ ~initialized

\* a configuration in order: the server has started and answered a request
C27_WitnessStarted ==
    /\ Loading
    /\ ~MustAbort
    /\ Len(call.args[2]) = 2
    /\ initialized
    /\ run[1].pc = "responded"

(***************************************************************************)
(* Retention: the server is started with a retention setting in            *)
(* DEBUG_LOG_MAX, in DEBUG_MAX_ENTRIES or in both, and two requests are    *)
(* logged.                                                                 *)
(***************************************************************************)
\* the text of a setting and the number it is the decimal notation of
RetentionSettings ==
    {[text |-> <<"-", "5">>, n |-> 0 - 5],
     [text |-> <<"0">>, n |-> 0],
     [text |-> <<"1">>, n |-> 1],
     [text |-> <<"2">>, n |-> 2],
     [text |-> <<"3">>, n |-> 3],
     [text |-> <<"1", "0", "0", "0">>, n |-> 1000],
     [text |-> <<"1", "0", "0", "1">>, n |-> 1001]}

RetentionTexts == {Some(st.text) : st \in RetentionSettings} \cup {Some(<<"x">>), Absent}

RetentionTables ==
    {<<[RawRoute EXCEPT !.name = "A"]>>,
     <<[RawRoute EXCEPT !.name = "A"], [RawRoute EXCEPT !.name = "B"]>>}

NextRetention ==
    \/ LoadConfig
    \/ StartServer
    \/ \E id \in ReqIds, r \in StartupRequests : Receive(id, r)
    \/ \E id \in ReqIds, outcome \in {Responded(200), Responded(503)} : Complete(id, outcome)

InitRetention ==
    /\ cfgRoutes = <<>>
    /\ debugMaxEntries = DefaultMaxEntries
    /\ debugLogging = FALSE
    /\ routes = <<>>
    /\ fallbackRoute = Absent
    /\ initialized = FALSE
    /\ maxEntries = DefaultMaxEntries
    /\ entries = <<>>
    /\ templateFiles = {TemplatePath}
    /\ templateCache = {}
    /\ templateEdits = NoEdits
    /\ matchOut = Absent
    /\ run = [id \in ReqIds |-> IdleRun]
    /\ crashed = FALSE
    /\ render = NoRender
    /\ \E logMax \in RetentionTexts, maxEntries0 \in RetentionTexts, t \in RetentionTables :
          call = Call("load", <<Env(logMax, maxEntries0), t>>)

SpecRetention == InitRetention /\ [][NextRetention]_vars

(***************************************************************************)
(* Settings: the server is started with a retention setting that is the    *)
(* notation of an integer or is not, and a request is sent.  No setting    *)
(* begins with 0x, which parseInt reads as hexadecimal.                     *)
(***************************************************************************)
SettingTexts ==
    {<<"7">>, <<"-", "1">>, <<"1", ".", "5">>, <<"1", "2", "a", "b", "c">>,
     <<"1", "e", "3">>, <<"a", "b", "c">>, <<"x", "1">>, <<>>}

SettingEnvs ==
    {Env(logMax, maxEntries0) : logMax, maxEntries0 \in {Some(t) : t \in SettingTexts}
                                                       \cup {Absent}}

NextSettings ==
    \/ LoadConfig
    \/ StartServer
    \/ \E r \in StartupRequests : Receive(1, r)
    \/ \E outcome \in DispatchOutcomes : Complete(1, outcome)

InitSettings ==
    /\ cfgRoutes = <<>>
    /\ debugMaxEntries = DefaultMaxEntries
    /\ debugLogging = FALSE
    /\ routes = <<>>
    /\ fallbackRoute = Absent
    /\ initialized = FALSE
    /\ maxEntries = DefaultMaxEntries
    /\ entries = <<>>
    /\ templateFiles = {TemplatePath}
    /\ templateCache = {}
    /\ templateEdits = NoEdits
    /\ matchOut = Absent
    /\ run = [id \in ReqIds |-> IdleRun]
    /\ crashed = FALSE
    /\ render = NoRender
    /\ \E env \in SettingEnvs, t \in RetentionTables : call = Call("load", <<env, t>>)

SpecSettings == InitSettings /\ [][NextSettings]_vars

(***************************************************************************)
(* Properties of the log sinks.  They speak of request 1 of Spec.          *)
(***************************************************************************)
\* the routes request 1 has to execute
Due ==
    IF R.mode = "routes" THEN {R.matching[i].name : i \in 1..Len(R.matching)}
    ELSE IF R.mode = "fallback" /\ fallbackRoute # Absent THEN {fallbackRoute[1].name}
    ELSE {}

\* C28: a logging failure never aborts request processing or changes its
\* outcome.  Whether or not a log sink raises an error while it records the
\* outcome of a route, a request that has ended has been answered, every
\* route whose forward was answered has the result of that answer, and
\* every route the request had to execute has been executed.
C28_LoggingFailureIsHarmless ==
    Finished =>
        /\ R.pc = "responded"
        /\ \A n \in 1..Len(T) :
              T[n].e = "answer" =>
                 \E i \in 1..Len(R.results) :
                    /\ R.results[i].route = T[n].route
                    /\ R.results[i].success = (T[n].info = "ok")
        /\ \A name \in Due : At("auth", name) # {}

\* the setting in force: DEBUG_LOG_MAX if it is set, else DEBUG_MAX_ENTRIES
Setting ==
    IF call.args[1].DEBUG_LOG_MAX # Absent THEN call.args[1].DEBUG_LOG_MAX
    ELSE call.args[1].DEBUG_MAX_ENTRIES

\* the retention count the setting in force asks for
Asked ==
    IF Setting = Absent THEN DefaultMaxEntries
    ELSE (CHOOSE st \in RetentionSettings : st.text = Setting[1]).n

\* the retention count: what is asked for, within [0,1000]
Retention == IF Asked < 0 THEN 0 ELSE IF Asked > 1000 THEN 1000 ELSE Asked

\* the logRequest calls of a step, the last one first
RECURSIVE Reversed(_)
Reversed(seq) == IF seq = <<>> THEN <<>> ELSE Reversed(Tail(seq)) \o <<Head(seq)>>

LoggedBy(id) ==
    Reversed(SelectSeq(SubSeq(run'[id].trace, Len(run[id].trace) + 1, Len(run'[id].trace)),
                       LAMBDA x : x.e = "dlog"))

Logged ==
    LET id == IF run'[1] # run[1] THEN 1 ELSE 2
    IN  [i \in 1..Len(LoggedBy(id)) |->
            [route |-> LoggedBy(id)[i].route, status |-> LoggedBy(id)[i].info]]

\* C29: the retention count is clamped to [0,1000], and after any sequence
\* of logRequest calls the debug log holds at most that many entries, the
\* most recent ones, newest first; with a count of 0 it holds none.  Every
\* step of a server that has started leaves the log as the calls of the
\* step followed by the entries before, cut to the retention count.
C29_RetentionBounded ==
    [][initialized' =>
          /\ maxEntries' = Retention
          /\ maxEntries' \in 0..1000
          /\ Len(entries') <= Retention
          /\ Retention = 0 => entries' = <<>>
          /\ LET all == Logged \o entries
             IN  entries' = SubSeq(all, 1, IF Len(all) > Retention THEN Retention
                                           ELSE Len(all))]_vars

\* a log that is full, with retention 2, has received another entry
C29_Witness ==
    /\ Loading
    /\ initialized
    /\ maxEntries = 2
    /\ Len(entries) = 2
    /\ \E id \in ReqIds :
          Cardinality({n \in 1..Len(run[id].trace) : run[id].trace[n].e = "dlog"}) >= 2
    /\ \A id \in ReqIds : run[id].pc = "responded"
    /\ Len(run[1].trace) > 0 /\ Len(run[2].trace) > 0

\* a setting below 0 and one above 1000 have been clamped
C29_WitnessClamped ==
    /\ Loading
    /\ initialized
    /\ Setting # Absent
    /\ \/ Asked < 0 /\ maxEntries = 0 /\ run[1].pc = "responded" /\ entries = <<>>
       \/ Asked > 1000 /\ maxEntries = 1000

\* str is the decimal notation of an integer: an optional sign and digits
integerText(str) ==
    LET body == IF str # <<>> /\ Head(str) \in {"-", "+"} THEN Tail(str) ELSE str
    IN  body # <<>> /\ \A i \in 1..Len(body) : body[i] \in {Digits[d] : d \in 1..10}

\* the retention settings that are set
SetSettings == {st \in {call.args[1].DEBUG_LOG_MAX, call.args[1].DEBUG_MAX_ENTRIES} : st # Absent}

\* C30: a retention setting (DEBUG_LOG_MAX or DEBUG_MAX_ENTRIES) that is
\* not an integer, such as "1.5" or "12abc", aborts the startup: the load
\* ends the process and the server never starts.
C30_NonIntegerSettingAborts ==
    (Loading /\ \E st \in SetSettings : ~integerText(st[1])) =>
        /\ ~initialized
        /\ call.done => (call.out = "exit" /\ crashed)

(***************************************************************************)
(* Multi routes: every route of routes.json is "multi": true, with or      *)
(* without a priority, and one request is sent.                            *)
(***************************************************************************)
MultiShapes ==
    {[BaseRoute("-") EXCEPT !.multi = TRUE, !.priority = p, !.event_match = e] :
        p \in {Absent, Some(1), Some(5)}, e \in {Buy, View}}

MultiRequests == {Request("POST", Payload("ok", Buy, FALSE), EmptyQuery, "k1")}

NextMulti ==
    \/ Initialize
    \/ \E r \in MultiRequests : Receive(1, r)
    \/ \E outcome \in DispatchOutcomes : Complete(1, outcome)

InitMulti ==
    /\ Constructed
    /\ cfgRoutes \in {Named(t) : t \in SeqUpTo(MultiShapes, MaxRoutes)}
    /\ debugMaxEntries = DefaultMaxEntries
    /\ debugLogging = FALSE
    /\ templateFiles = {TemplatePath}

SpecMulti == InitMulti /\ [][NextMulti]_vars

(***************************************************************************)
(* Properties of multi routes.  They speak of request 1 of SpecMulti.      *)
(***************************************************************************)
\* the routes of routes.json that match the request, in the order of the file
FileOrderMatches ==
    SelectSeq(cfgRoutes,
              LAMBDA route : /\ ~route.fallback
                             /\ qualifies(route, getEventName(R.payload), R.req.method))

\* C31: if "multi": true is set on every matching route, all of them are
\* executed, in the order in which they appear in routes.json.
C31_MultiInFileOrder ==
    (/\ Finished
     /\ FileOrderMatches # <<>>
     /\ \A i \in 1..Len(FileOrderMatches) : FileOrderMatches[i].multi) =>
        /\ Len(Auths) = Len(FileOrderMatches)
        /\ \A n \in 1..Len(Auths) : Auths[n].route = FileOrderMatches[n].name

(***************************************************************************)
(* Token expressions: resolveTokenExpression is called with an expression  *)
(* written out in full, on payloads in which each of the keys a, b and c   *)
(* is present or absent.                                                   *)
(***************************************************************************)
\* a token given by the text of its expression
Raw(expression) == Tok(expression, <<>>)

RawExpressions ==
    {<<"a", " ", "|", "|", " ", "b", " ", "|", "|", " ", "c">>,
     <<"a", "|", "|", "b", "|", "|", "c">>,
     <<"a", " ", "|", "|", " ", "'", "U", "'", " ", "|", "|", " ", "c">>,
     <<"a", " ", "|", "|", " ", "b">>,
     <<"a">>,
     <<"a", " ", "|", "|">>,
     <<"a", " ", "|", " ", "b">>,
     <<"|", "|", " ", "b">>,
     <<"|", "|", "b", "|", "|", "c">>,
     <<"a", "|", "|", "|", "b">>}

\* the payloads: each of the keys a, b and c is absent or holds "v" and its name
ExpressionPayloads ==
    {LET ks == SelectSeq(<<<<"a">>, <<"b">>, <<"c">>>>, LAMBDA k : k \in held)
     IN  JObj(ks, [i \in 1..Len(ks) |-> JStr(<<"v">> \o ks[i])]) :
        held \in SUBSET {<<"a">>, <<"b">>, <<"c">>}}

NextExpression ==
    \/ Render
    \/ \E expression \in RawExpressions : ResolveToken(Raw(expression))
    \/ \E path \in {<<"a">>, <<"b">>, <<"c">>} : ResolvePath(path)

InitExpression ==
    /\ cfgRoutes = <<>>
    /\ debugMaxEntries = DefaultMaxEntries
    /\ debugLogging = FALSE
    /\ routes = <<>>
    /\ fallbackRoute = Absent
    /\ initialized = FALSE
    /\ maxEntries = DefaultMaxEntries
    /\ entries = <<>>
    /\ templateFiles = {}
    /\ templateCache = {}
    /\ templateEdits = NoEdits
    /\ matchOut = Absent
    /\ run = [id \in ReqIds |-> IdleRun]
    /\ crashed = FALSE
    /\ \E expression \in RawExpressions, payload \in ExpressionPayloads :
          render = RenderCall("object", <<<<Raw(expression)>>>>, payload)
    /\ call = NoCall

SpecExpression == InitExpression /\ [][NextExpression]_vars

(***************************************************************************)
(* Properties of token expressions.  They speak of the call of             *)
(* SpecExpression.                                                         *)
(***************************************************************************)
\* the places of the expression where a '||' begins
Bars(expression) ==
    {i \in 1..(Len(expression) - 1) : expression[i] = "|" /\ expression[i + 1] = "|"}

firstBar(expression) == CHOOSE i \in Bars(expression) : \A j \in Bars(expression) : i <= j

\* the expression read as the claim reads it: the path is what is left of
\* the first '||' and the fallback everything right of it
splitValue(expression) ==
    LET left == trim(SubSeq(expression, 1, firstBar(expression) - 1))
        right == trim(SubSeq(expression, firstBar(expression) + 2, Len(expression)))
        mainValue == getValueByPath(left, RenderContext)
        fallback == processFallbackValue(right, RenderContext)
    IN  IF mainValue # Undefined THEN String(mainValue)
        ELSE IF fallback # Undefined THEN String(fallback)
        ELSE MissingValue

ResolvedExpression == render.op = "resolveTokenExpression" /\ render.part.fallback = <<>>

\* C32: a token expression is split on the first '||' reading left to
\* right: the left part is the path and everything to the right, further
\* '||' included, is the fallback text taken verbatim.  The token resolves
\* to the value at the path if there is one, else to what the whole right
\* part yields as one fallback, else it is missing.
C32_SplitOnFirstBar ==
    (ResolvedExpression /\ Bars(render.part.path) # {}) =>
        render.out = JStr(splitValue(render.part.path))

(***************************************************************************)
(* Fallbacks: the tokens {{m || fallback}} and {{a || fallback}} with a    *)
(* fallback of each form, on payloads in which each of the keys a, b and   *)
(* true is present or absent.  A form is the text of a fallback, whether   *)
(* it is a literal, and the text a literal yields.                         *)
(***************************************************************************)
FallbackForms ==
    {[text |-> <<"'", "U", "'">>, literal |-> TRUE, yields |-> <<"U">>],
     [text |-> <<"\"", "U", "\"">>, literal |-> TRUE, yields |-> <<"U">>],
     [text |-> <<"'", "'">>, literal |-> TRUE, yields |-> <<>>],
     [text |-> <<"'", "n", "u", "l", "l", "'">>, literal |-> TRUE, yields |-> <<"n", "u", "l", "l">>],
     [text |-> <<"'", "5", "'">>, literal |-> TRUE, yields |-> <<"5">>],
     [text |-> <<"n", "u", "l", "l">>, literal |-> TRUE, yields |-> <<"n", "u", "l", "l">>],
     [text |-> <<"t", "r", "u", "e">>, literal |-> TRUE, yields |-> <<"t", "r", "u", "e">>],
     [text |-> <<"f", "a", "l", "s", "e">>, literal |-> TRUE, yields |-> <<"f", "a", "l", "s", "e">>],
     [text |-> <<"5">>, literal |-> TRUE, yields |-> <<"5">>],
     [text |-> <<"-", "5">>, literal |-> TRUE, yields |-> <<"-", "5">>],
     [text |-> <<"1", ".", "5">>, literal |-> TRUE, yields |-> <<"1", ".", "5">>],
     [text |-> <<"b">>, literal |-> FALSE, yields |-> <<>>],
     [text |-> <<"b", ".", "d">>, literal |-> FALSE, yields |-> <<>>],
     [text |-> <<"'", "a", "\"">>, literal |-> FALSE, yields |-> <<>>],
     [text |-> <<"'", "_", "_", "M", "I", "S", "S", "I", "N", "G", "_", "V", "A", "L", "U", "E", "_", "_", "'">>, literal |-> TRUE, yields |-> <<"_", "_", "M", "I", "S", "S", "I", "N", "G", "_", "V", "A", "L", "U", "E", "_", "_">>]}

FallbackTokens == {Tok(p, f.text) : p \in {<<"m">>, <<"a">>}, f \in FallbackForms}

FallbackPayloads ==
    {LET ks == SelectSeq(<<<<"a">>, <<"b">>, <<"t", "r", "u", "e">>>>, LAMBDA k : k \in held)
     IN  JObj(ks, [i \in 1..Len(ks) |-> JStr(<<"v">> \o ks[i])]) :
        held \in SUBSET {<<"a">>, <<"b">>, <<"t", "r", "u", "e">>}}

NextFallback ==
    \/ Render
    \/ \E part \in FallbackTokens : ResolveToken(part)

InitFallback ==
    /\ cfgRoutes = <<>>
    /\ debugMaxEntries = DefaultMaxEntries
    /\ debugLogging = FALSE
    /\ routes = <<>>
    /\ fallbackRoute = Absent
    /\ initialized = FALSE
    /\ maxEntries = DefaultMaxEntries
    /\ entries = <<>>
    /\ templateFiles = {}
    /\ templateCache = {}
    /\ templateEdits = NoEdits
    /\ matchOut = Absent
    /\ run = [id \in ReqIds |-> IdleRun]
    /\ crashed = FALSE
    /\ \E part \in FallbackTokens, payload \in FallbackPayloads :
          render = RenderCall("object", <<<<part>>>>, payload)
    /\ call = NoCall

SpecFallback == InitFallback /\ [][NextFallback]_vars

(***************************************************************************)
(* Properties of fallbacks.  They speak of the call of SpecFallback.       *)
(***************************************************************************)
formOf(text) == CHOOSE f \in FallbackForms : f.text = text

\* what a token whose path is NOT_FOUND yields by its fallback: the text of
\* a literal, else the value at the fallback path, else the missing marker
byFallback(text) ==
    IF formOf(text).literal THEN formOf(text).yields
    ELSE IF pathValue(text) # <<>> THEN String(pathValue(text)[1])
    ELSE MissingValue

\* C33: a fallback is read as a quoted string literal (quotes stripped),
\* else the literal null, else true or false, else a number literal, else a
\* path resolved against the context.  When the path of the token is
\* NOT_FOUND, a literal fallback always yields a value, so that the field
\* is rendered and never omitted ({{x || null}} renders "null"), and a path
\* fallback that is NOT_FOUND makes the token missing and the field omitted.
C33_FallbackForms ==
    /\ (Resolved /\ render.part.fallback # <<>> /\ pathValue(render.part.path) = <<>>) =>
          render.out = JStr(byFallback(render.part.fallback))
    /\ (RendersOneToken /\ render.leaves[1][1].fallback # <<>>
        /\ pathValue(render.leaves[1][1].path) = <<>>) =>
          LET text == render.leaves[1][1].fallback
          IN  render.out =
                 IF ~formOf(text).literal /\ pathValue(text) = <<>> THEN JObj(<<>>, <<>>)
                 ELSE JObj(<<KeyNames[1]>>, <<JStr(byFallback(text))>>)

(***************************************************************************)
(* Template loads: template routes, template files that are edited or      *)
(* deleted while the server runs, and two requests.                        *)
(***************************************************************************)
LoadRequests ==
    {Request("POST", Payload("ok", Buy, poison), EmptyQuery, "k1") : poison \in BOOLEAN}

NextTemplateLoads ==
    \/ Initialize
    \/ \E path \in {TemplatePath, OtherTemplatePath} : EditTemplate(path)
    \/ \E path \in {TemplatePath, OtherTemplatePath} : DeleteTemplate(path)
    \/ \E id \in ReqIds, r \in LoadRequests : Receive(id, r)
    \/ \E id \in ReqIds, outcome \in {Responded(200), Responded(503)} : Complete(id, outcome)

InitTemplateLoads ==
    /\ Constructed
    /\ cfgRoutes \in TemplateTables
    /\ debugMaxEntries = DefaultMaxEntries
    /\ debugLogging = FALSE
    /\ templateFiles \in {{TemplatePath}, {TemplatePath, OtherTemplatePath}}

SpecTemplateLoads == InitTemplateLoads /\ [][NextTemplateLoads]_vars

(***************************************************************************)
(* Properties of template loads.  They speak of the steps of               *)
(* SpecTemplateLoads.                                                      *)
(***************************************************************************)
\* the events the step adds to the trace of request id
Added(id) == SubSeq(run'[id].trace, Len(run[id].trace) + 1, Len(run'[id].trace))

templatePathOf(name) ==
    (CHOOSE i \in 1..Len(cfgRoutes) : cfgRoutes[i].name = name)

\* the step executes the template route of the n-th added event up to its load
LoadsAt(id, n) ==
    /\ Added(id)[n].e = "auth"
    /\ Added(id)[n].info = "ok"
    /\ truthy(cfgRoutes[templatePathOf(Added(id)[n].route)].template)

\* the added events of the route of the n-th added event, after it
After(id, n, e) ==
    {m \in (n + 1)..Len(Added(id)) :
        Added(id)[m].e = e /\ Added(id)[m].route = Added(id)[n].route}

\* C34: loadTemplate reads and parses a template path at most once
\* successfully.  A document in the cache stays there; a load of a cached
\* path succeeds without the file, a load of a path that is not cached
\* succeeds exactly if the file is there and then caches it, and a failed
\* load caches nothing; at request time a failed load makes the route fail
\* and only that route: the routes after it are executed and the request is
\* answered.
C34_LoadOnceFailLocal ==
    [][/\ templateCache \subseteq templateCache'
       /\ (templateCache' \ templateCache) \subseteq templateFiles
       /\ \A id \in ReqIds :
             \A n \in 1..Len(Added(id)) :
                LoadsAt(id, n) =>
                   LET name == Added(id)[n].route
                       path == cfgRoutes[templatePathOf(name)].template
                       cached == \/ path \in templateCache
                                 \/ \E m \in 1..(n - 1) :
                                       /\ Added(id)[m].e = "post"
                                       /\ cfgRoutes[templatePathOf(Added(id)[m].route)].template
                                             = path
                   IN  IF cached \/ path \in templateFiles
                       THEN /\ After(id, n, "post") # {}
                            /\ path \in templateCache'
                       ELSE /\ After(id, n, "post") = {}
                            /\ path \notin templateCache'
                            /\ \E i \in 1..Len(run'[id].results) :
                                  /\ run'[id].results[i].route = name
                                  /\ ~run'[id].results[i].success
                            /\ run'[id].pc \in {"await", "responded"}
                            /\ \A k \in 1..Len(run'[id].matching) :
                                  \/ \E m \in 1..Len(run'[id].trace) :
                                        /\ run'[id].trace[m].e = "auth"
                                        /\ run'[id].trace[m].route = run'[id].matching[k].name
                                  \/ run'[id].pc = "await" /\ k > run'[id].k]_vars

(***************************************************************************)
(* Shared state: two requests, real or dry-run, on servers with multi      *)
(* routes, with and without a template and a fallback route.               *)
(***************************************************************************)
FrameShapes ==
    {[BaseRoute("-") EXCEPT !.multi = TRUE, !.template = tpl] :
        tpl \in {None, TemplatePath}}

FrameTables ==
    {Named(t \o f) : t \in SeqUpTo(FrameShapes, 2),
                     f \in SeqUpTo({[x EXCEPT !.fallback = TRUE] : x \in FrameShapes}, 1)}

FrameRequests ==
    {[Request("POST", body, EmptyQuery, "k1") EXCEPT !.path = path] :
        body \in {Payload("ok", Buy, FALSE), Payload("ok", View, FALSE),
                  Payload("ok", Buy, TRUE)},
        path \in {"/g/collect", "/dry-run"}}

NextFrame ==
    \/ Initialize
    \/ \E id \in ReqIds, r \in FrameRequests : Http(id, r)
    \/ \E id \in ReqIds, outcome \in {Responded(200), Responded(503)} : Complete(id, outcome)

InitFrame ==
    /\ Constructed
    /\ cfgRoutes \in FrameTables
    /\ debugMaxEntries = DefaultMaxEntries
    /\ debugLogging = FALSE
    /\ templateFiles \in {{}, {TemplatePath}}

SpecFrame == InitFrame /\ [][NextFrame]_vars

OwnSuccesses(id) ==
    {n \in 1..Len(run[id].trace) : run[id].trace[n].e = "answer" /\ run[id].trace[n].info = "ok"}

\* C36: when several requests are in flight at once and interleave at their
\* outbound calls, the response of each depends only on the outcomes of its
\* own routes: its processed count is the number of its own successful
\* forwards and it is 200 exactly if there is one, whatever the outcomes of
\* the routes of the other request.
C36_ResponseFromOwnOutcomes ==
    \A id \in ReqIds :
       (run[id].resp # Absent /\ run[id].mode \in {"routes", "fallback"}) =>
          LET N == Cardinality(OwnSuccesses(id))
              resp == run[id].resp[1]
          IN  /\ resp.code = IF N > 0 THEN 200 ELSE 500
              /\ N > 0 => resp.processed = N
              /\ Len(run[id].results) = IF run[id].mode = "routes" THEN Len(run[id].matching)
                                        ELSE 1

\* request 1 executed A, request 2 then failed on the fallback route, and
\* request 1 then succeeded on B: each has its own answer
C36_Witness ==
    /\ run[1].pc = "responded" /\ run[2].pc = "responded"
    /\ run[1].mode = "routes" /\ run[2].mode = "fallback"
    /\ Len(entries) = 3
    /\ entries[3].route = "A" /\ entries[2].route = "C" /\ entries[1].route = "B"
    /\ run[1].resp[1].code = 200 /\ run[1].resp[1].processed = 1
    /\ run[2].resp[1].code = 500

(***************************************************************************)
(* Properties of the response.  They speak of request 1 of Spec.           *)
(***************************************************************************)
Responses == {n \in 1..Len(T) : T[n].e = "respond"}

\* C37: every request handed to processRequest receives exactly one HTTP
\* response, one of 200, 400, 405 and 500, never zero and never two, on
\* every path: no run sends a second response, and a run that has ended
\* has sent one.
C37_ExactlyOneResponse ==
    /\ Cardinality(Responses) <= 1
    /\ Finished =>
          /\ Cardinality(Responses) = 1
          /\ R.resp # Absent
          /\ R.resp[1].code \in {200, 400, 405, 500}

(***************************************************************************)
(* Properties of the methods of executed routes.  They speak of request 1  *)
(* of SpecMethods.                                                         *)
(***************************************************************************)
routeNamed(name) ==
    cfgRoutes[CHOOSE i \in 1..Len(cfgRoutes) : cfgRoutes[i].name = name]

\* the events by which a route is executed: its authentication and its POST
Executions == {n \in 1..Len(T) : T[n].e \in {"auth", "post"}}

\* C38: a route is executed (authenticated and forwarded to) only for a
\* request whose HTTP method is in the methods of the route, the fallback
\* route included.
C38_ExecutedOnlyForListedMethod ==
    \A n \in Executions :
       /\ routeNamed(T[n].route).methods # Absent
       /\ R.req.method \in routeNamed(T[n].route).methods[1]

\* the same for the regular routes only
C38_RegularRoutesOnly ==
    \A n \in Executions :
       ~routeNamed(T[n].route).fallback =>
          /\ routeNamed(T[n].route).methods # Absent
          /\ R.req.method \in routeNamed(T[n].route).methods[1]


\* request 1 was rejected by the method gate
Rejected == R.resp # Absent /\ R.resp[1].code = 405

\* C39: the Allow header of a 405 response never lists the method of the
\* rejected request itself, whatever the route table (routes without a
\* methods field and the empty route list included).
C39_AllowOmitsRejectedMethod ==
    Rejected =>
        /\ R.resp[1].allow # Absent
        /\ R.req.method \notin R.resp[1].allow[1]

\* the same where every route of the table declares its methods
C39_AllRoutesDeclare ==
    (\A i \in 1..Len(cfgRoutes) : cfgRoutes[i].methods # Absent) =>
        C39_AllowOmitsRejectedMethod


(***************************************************************************)
(* Properties of rendering over the content of the payload's values.       *)
(***************************************************************************)
\* the token of the part resolves to a present value: its path is found, or
\* else its fallback gives a value
tokenPresent(part) ==
    \/ pathValue(part.path) # <<>>
    \/ part.fallback # <<>> /\ fallbackOf(part.fallback) # <<>>

\* a string leaf all of whose tokens resolve to present values
leafPresent(leaf) ==
    /\ hasToken(leaf)
    /\ \A i \in 1..Len(leaf) : leaf[i].tok => tokenPresent(leaf[i])

\* leaf i of the rendered template is in the output
keptLeaf(i) ==
    IF render.shape = "object"
    THEN \E j \in 1..Len(render.out.keys) : render.out.keys[j] = KeyNames[i]
    ELSE Len(render.out.items) >=
            Cardinality({j \in 1..i : leafPresent(render.leaves[j])})

\* C40: a string leaf all of whose tokens resolve to present values is never
\* omitted from the rendered output, whatever those values are: the content
\* of a value of the payload cannot make a field of the template disappear.
C40_PresentLeafIsKept ==
    Rendered =>
        \A i \in 1..Len(render.leaves) :
            leafPresent(render.leaves[i]) => keptLeaf(i)

\* some present value holds the text of the missing marker
markerInValue(leaf) ==
    \E i \in 1..Len(leaf) :
        /\ leaf[i].tok
        /\ tokenPresent(leaf[i])
        /\ includesString(tokenValue(leaf[i]), MissingValue)

\* the same for the values that do not hold the text of the marker
C40_WithoutMarkerText ==
    Rendered =>
        \A i \in 1..Len(render.leaves) :
            (leafPresent(render.leaves[i]) /\ ~markerInValue(render.leaves[i]))
                => keptLeaf(i)

====
